---- MODULE Spec2Model ----
(***************************************************************************)
(* A model of cozyctl's build-and-deploy pipeline: the remote build        *)
(* polling loop, the log-stream readers, the function-list selection of    *)
(* the update pipeline, the --functions flag parser, the base image        *)
(* resolver, the Python signature scanner, the source file walk and the    *)
(* source packager.                                                        *)
(*                                                                         *)
(* Text is modelled as a sequence of one-character strings, so that the    *)
(* string functions of the code (trim, split, prefix, lower-casing, the    *)
(* character scanner) are computed character by character.                 *)
(*                                                                         *)
(* Each component has its own variables and its own specification          *)
(* (SpecPoll, SpecSSE, ...); a specification leaves the variables of the   *)
(* other components at their idle values.                                  *)
(***************************************************************************)
EXTENDS Integers, Sequences, FiniteSets, TLC

VARIABLES
    \* BuildProjectOnServer (remote build: upload, then the polling loop)
    pollPc,        \* "upload" | "loop" | "query" | "sleep" | "done"
    now,           \* time.Now(), in ticks of one poll interval
    deadline,      \* time.Now().Add(pollTimeout) taken before the loop
    lastStatus,    \* the lastStatus local of the loop
    pollResult,    \* what the function returned: "none" until it returns
    pollTrace      \* history: every status query (with its answer) and sleep

pollVars == <<pollPc, now, deadline, lastStatus, pollResult, pollTrace>>

VARIABLES
    \* readSSELogs (deploy streaming) and readSSELogsBuilds (builds logs --follow)
    sseReader,     \* which reader runs: "deploy" | "builds"
    sseStream,     \* the lines the response body delivers
    sseReadErr,    \* whether the body ends in a read error instead of EOF
    ssePos,        \* lines scanned so far
    sseOut,        \* payloads printed so far
    sseResult      \* "none" until the reader returns

sseVars == <<sseReader, sseStream, sseReadErr, ssePos, sseOut, sseResult>>

VARIABLES
    \* ParseFunctionsFromFlag
    flagItems,     \* the comma-separated items the flag value is built from
    flagSpec,      \* the flag value: the items joined by commas
    flagPc,        \* "call" before the call, "done" once it has returned
    flagOut        \* the list the call returned

flagVars == <<flagItems, flagSpec, flagPc, flagOut>>

VARIABLES
    \* ResolveBaseImage
    imgCfg,        \* the runtime versions of the manifest, as they are built
    imgPc,         \* "call" before the call, "done" once it has returned
    imgOut         \* what the call returned: an image tag or an error

imgVars == <<imgCfg, imgPc, imgOut>>

VARIABLES
    \* update.Run (the update pipeline)
    updOpts,       \* Options: DryRun, Functions, MinWorkers, MaxWorkers, ImageOnly
    updManifest,   \* cozyConfig.Functions: the manifest's function table
    updScan,       \* what DetectWorkerFunctions finds in the project's source
    updCuda,       \* cozyConfig.Cuda
    updPc,         \* the step Run is at
    updFunctions,  \* the functions local of Run
    updConsulted,  \* history: the function sources Run has read
    updEffects,    \* history: Dockerfile written, build started, requests sent
    updResult      \* "none" until Run returns, then "ok" or its error

updVars == <<updOpts, updManifest, updScan, updCuda, updPc, updFunctions,
             updConsulted, updEffects, updResult>>

VARIABLES
    \* findSignatureEnd
    sigParams,     \* the tokens of the parameter list the content is built from
    sigRet,        \* the text between the closing parenthesis and the colon
    sigContent,    \* the file content handed to findSignatureEnd
    sigStart,      \* the start offset: just after the "(" of the def
    sigPc,         \* "call" before the call, "done" once it has returned
    sigOut         \* what the call returned, or that it panicked

sigVars == <<sigParams, sigRet, sigContent, sigStart, sigPc, sigOut>>

VARIABLES
    \* DetectWorkerFunctions
    detTree,       \* the project directory
    detLines,      \* the lines the one file of the project is made of
    detShape,      \* the names the directory tree is made of
    detPc,         \* "call" before the call, "done" once it has returned
    detOut         \* what the call returned, with the files it scanned

detVars == <<detTree, detLines, detShape, detPc, detOut>>

VARIABLES
    \* CreateTarball
    tarShape,      \* the names and kinds the directory tree is made of
    tarTree,       \* the project directory
    tarPc,         \* "call" before the call, "done" once it has returned
    tarOut         \* what the call returned, with the entries it wrote

tarVars == <<tarShape, tarTree, tarPc, tarOut>>

VARIABLES
    \* the orchestrator client
    apiOp,         \* the method called: "create", "update" or "get"
    apiId,         \* the deployment ID of the call
    apiResp,       \* the answer the server gives to the request
    apiSent,       \* the requests sent, in order
    apiPc,         \* "call" before the call, "done" once it has returned
    apiOut         \* what the method returned

apiVars == <<apiOp, apiId, apiResp, apiSent, apiPc, apiOut>>

VARIABLES
    \* DockerBuilder.Build
    dkTag,         \* the image tag the build was asked for
    dkPc,          \* "start", "running", "check" (Run has returned) or "done"
    dkCtx,         \* buildCtx.Err(): "live", "deadline" or "canceled"
    dkProc,        \* the docker subprocess: "none", "running", "exit0", "exit1", "killed"
    dkPiped,       \* the chunks the subprocess wrote to its pipes, in order
    dkStdout,      \* the stdout buffer: the chunks captured
    dkErr,         \* whether cmd.Run returned an error
    dkResult       \* the BuildResult

dkVars == <<dkTag, dkPc, dkCtx, dkProc, dkPiped, dkStdout, dkErr, dkResult>>

VARIABLES
    \* the profile store and cozyctl delete
    cfgFiles,      \* the files under ~/.cozy, each the list of its path's parts
    cfgPointer,    \* the content of ~/.cozy/default/config.yaml
    cfgName,       \* the --name flag
    cfgProfile,    \* the --profile flag
    cfgBefore,     \* the files and the pointer before the command ran
    cfgPc,         \* "call" before the command runs, "done" once it has returned
    cfgOut         \* the error the command returned, "none" for nil

cfgVars == <<cfgFiles, cfgPointer, cfgName, cfgProfile, cfgBefore, cfgPc, cfgOut>>

VARIABLES
    \* the two packagers on a project with an ignore file
    ignLines,      \* whether the project has a .gitignore, and its lines
    ignTree,       \* the project directory
    ignPc,         \* which packager has run: [deploy, build]
    ignDeploy,     \* what createTarball of the deploy command produced
    ignBuild       \* what CreateTarball of the build command produced

ignVars == <<ignLines, ignTree, ignPc, ignDeploy, ignBuild>>

vars == <<pollVars, sseVars, flagVars, imgVars, updVars, sigVars, detVars, tarVars, apiVars, dkVars, cfgVars, ignVars>>

\* What each component leaves alone: the variables of all the others.
notPoll == <<sseVars, flagVars, imgVars, updVars, sigVars, detVars, tarVars, apiVars, dkVars, cfgVars, ignVars>>

notSSE == <<pollVars, flagVars, imgVars, updVars, sigVars, detVars, tarVars, apiVars, dkVars, cfgVars, ignVars>>

notFlag == <<pollVars, sseVars, imgVars, updVars, sigVars, detVars, tarVars, apiVars, dkVars, cfgVars, ignVars>>

notImg == <<pollVars, sseVars, flagVars, updVars, sigVars, detVars, tarVars, apiVars, dkVars, cfgVars, ignVars>>

notUpd == <<pollVars, sseVars, flagVars, imgVars, sigVars, detVars, tarVars, apiVars, dkVars, cfgVars, ignVars>>

notSig == <<pollVars, sseVars, flagVars, imgVars, updVars, detVars, tarVars, apiVars, dkVars, cfgVars, ignVars>>

notDet == <<pollVars, sseVars, flagVars, imgVars, updVars, sigVars, tarVars, apiVars, dkVars, cfgVars, ignVars>>

notTar == <<pollVars, sseVars, flagVars, imgVars, updVars, sigVars, detVars, apiVars, dkVars, cfgVars, ignVars>>

notApi == <<pollVars, sseVars, flagVars, imgVars, updVars, sigVars, detVars, tarVars, dkVars, cfgVars, ignVars>>

notDk == <<pollVars, sseVars, flagVars, imgVars, updVars, sigVars, detVars, tarVars, apiVars, cfgVars, ignVars>>

notCfg == <<pollVars, sseVars, flagVars, imgVars, updVars, sigVars, detVars, tarVars, apiVars, dkVars, ignVars>>

notIgn == <<pollVars, sseVars, flagVars, imgVars, updVars, sigVars, detVars, tarVars, apiVars, dkVars, cfgVars>>

\* The idle values a component's variables keep while another one runs.
IdlePoll ==
    /\ pollPc = "idle"
    /\ now = 0
    /\ deadline = 0
    /\ lastStatus = ""
    /\ pollResult = "none"
    /\ pollTrace = <<>>

IdleSSE ==
    /\ sseReader = "idle"
    /\ sseStream = <<>>
    /\ sseReadErr = FALSE
    /\ ssePos = 0
    /\ sseOut = <<>>
    /\ sseResult = "none"

IdleFlag ==
    /\ flagItems = <<>>
    /\ flagSpec = <<>>
    /\ flagPc = "idle"
    /\ flagOut = <<>>

IdleImg ==
    /\ imgCfg = <<>>
    /\ imgPc = "idle"
    /\ imgOut = <<>>

IdleUpd ==
    /\ updOpts = <<>>
    /\ updManifest = {}
    /\ updScan = <<>>
    /\ updCuda = <<>>
    /\ updPc = "idle"
    /\ updFunctions = <<>>
    /\ updConsulted = {}
    /\ updEffects = <<>>
    /\ updResult = "none"

IdleSig ==
    /\ sigParams = <<>>
    /\ sigRet = <<>>
    /\ sigContent = <<>>
    /\ sigStart = 0
    /\ sigPc = "idle"
    /\ sigOut = [panic |-> FALSE, end |-> 0]

IdleDet ==
    /\ detTree = <<>>
    /\ detLines = <<>>
    /\ detShape = "idle"
    /\ detPc = "idle"
    /\ detOut = [panic |-> FALSE, err |-> FALSE, files |-> <<>>, functions |-> <<>>]

IdleTar ==
    /\ tarShape = "idle"
    /\ tarTree = <<>>
    /\ tarPc = "idle"
    /\ tarOut = [err |-> "none", returned |-> FALSE, archive |-> <<>>, written |-> <<>>]

IdleApi ==
    /\ apiOp = "none"
    /\ apiId = ""
    /\ apiResp = [transport |-> TRUE, status |-> 200, read |-> TRUE, body |-> "empty"]
    /\ apiSent = <<>>
    /\ apiPc = "idle"
    /\ apiOut = [ok |-> TRUE, found |-> FALSE, err |-> "",
                 deployment |-> [ID |-> "", ImageURL |-> ""]]

IdleDk ==
    /\ dkTag = ""
    /\ dkPc = "idle"
    /\ dkCtx = "live"
    /\ dkProc = "none"
    /\ dkPiped = <<>>
    /\ dkStdout = <<>>
    /\ dkErr = FALSE
    /\ dkResult = [ImageTag |-> "", Logs |-> <<>>, Error |-> "none"]

IdleCfg ==
    /\ cfgFiles = {}
    /\ cfgPointer = <<>>
    /\ cfgName = <<>>
    /\ cfgProfile = <<>>
    /\ cfgBefore = <<>>
    /\ cfgPc = "idle"
    /\ cfgOut = "none"

IdleIgn ==
    /\ ignLines = [present |-> FALSE, lines |-> <<>>]
    /\ ignTree = <<>>
    /\ ignPc = [deploy |-> "idle", build |-> "idle"]
    /\ ignDeploy = <<>>
    /\ ignBuild = <<>>

\* Every component but the named one is idle.
OthersIdle(g) ==
    /\ IF g = "poll" THEN TRUE ELSE IdlePoll
    /\ IF g = "sse" THEN TRUE ELSE IdleSSE
    /\ IF g = "flag" THEN TRUE ELSE IdleFlag
    /\ IF g = "img" THEN TRUE ELSE IdleImg
    /\ IF g = "upd" THEN TRUE ELSE IdleUpd
    /\ IF g = "sig" THEN TRUE ELSE IdleSig
    /\ IF g = "det" THEN TRUE ELSE IdleDet
    /\ IF g = "tar" THEN TRUE ELSE IdleTar
    /\ IF g = "api" THEN TRUE ELSE IdleApi
    /\ IF g = "dk" THEN TRUE ELSE IdleDk
    /\ IF g = "cfg" THEN TRUE ELSE IdleCfg
    /\ IF g = "ign" THEN TRUE ELSE IdleIgn

----------------------------------------------------------------------------
(***************************************************************************)
(* Text helpers: Go's strings package on sequences of characters           *)
(***************************************************************************)

\* strings.HasPrefix
HasPrefix(s, p) == Len(s) >= Len(p) /\ SubSeq(s, 1, Len(p)) = p

\* strings.HasSuffix
HasSuffix(s, p) ==
    Len(s) >= Len(p) /\ SubSeq(s, Len(s) - Len(p) + 1, Len(s)) = p

\* strings.TrimPrefix
TrimPrefix(s, p) == IF HasPrefix(s, p) THEN SubSeq(s, Len(p) + 1, Len(s)) ELSE s

\* unicode.IsSpace, on the characters the model uses
IsSpace(c) == c \in {" ", "\t", "\n", "\r"}

RECURSIVE TrimLeft(_)
TrimLeft(s) ==
    IF s # <<>> /\ IsSpace(Head(s)) THEN TrimLeft(Tail(s)) ELSE s

RECURSIVE TrimRight(_)
TrimRight(s) ==
    IF s # <<>> /\ IsSpace(s[Len(s)]) THEN TrimRight(SubSeq(s, 1, Len(s) - 1)) ELSE s

\* strings.TrimSpace
TrimSpace(s) == TrimRight(TrimLeft(s))

\* strings.Index for a one-character separator: 0 when it does not occur.
IndexOf(s, c) ==
    LET at == {i \in 1..Len(s) : s[i] = c}
    IN  IF at = {} THEN 0 ELSE CHOOSE i \in at : \A j \in at : i <= j

RECURSIVE Split(_, _)
\* strings.Split(s, sep) for a one-character separator: always at least one
\* part, the empty text giving one empty part.
Split(s, c) ==
    LET i == IndexOf(s, c)
    IN  IF i = 0 THEN <<s>>
        ELSE <<SubSeq(s, 1, i - 1)>> \o Split(SubSeq(s, i + 1, Len(s)), c)

\* strings.SplitN(s, sep, 2): split at the first separator only.
SplitN2(s, c) ==
    LET i == IndexOf(s, c)
    IN  IF i = 0 THEN <<s>>
        ELSE <<SubSeq(s, 1, i - 1), SubSeq(s, i + 1, Len(s))>>

UpperLetters ==
    <<"A", "B", "C", "D", "E", "F", "G", "H", "I", "J", "K", "L", "M",
      "N", "O", "P", "Q", "R", "S", "T", "U", "V", "W", "X", "Y", "Z">>

LowerLetters ==
    <<"a", "b", "c", "d", "e", "f", "g", "h", "i", "j", "k", "l", "m",
      "n", "o", "p", "q", "r", "s", "t", "u", "v", "w", "x", "y", "z">>

LowerChar(c) ==
    LET at == {i \in 1..26 : UpperLetters[i] = c}
    IN  IF at = {} THEN c ELSE LowerLetters[CHOOSE i \in at : TRUE]

\* strings.ToLower
ToLower(s) == [i \in 1..Len(s) |-> LowerChar(s[i])]

RECURSIVE Join(_, _)
\* strings.Join
Join(parts, sep) ==
    IF parts = <<>> THEN <<>>
    ELSE IF Len(parts) = 1 THEN parts[1]
    ELSE parts[1] \o sep \o Join(Tail(parts), sep)

----------------------------------------------------------------------------
(***************************************************************************)
(* BuildProjectOnServer: upload and polling loop                           *)
(***************************************************************************)

\* pollInterval := 5 * time.Second: one tick of the model's clock.
PollIntervalTicks == 1

\* pollTimeout := 4 * time.Hour, scaled down to a few poll intervals.
PollTimeoutTicks == 4

\* The longest a single status query takes, in ticks.
MaxQueryTicks == 1

\* The statuses the builder may report; "weird" stands for any status the
\* switch does not name.
BuildStatuses == {"pending", "running", "success", "failed", "weird"}

\* What GetBuildStatus returns: an error, or a status record.  The image tag
\* and the error message are optional fields of the server's answer.
StatusResponses ==
    {[err |-> TRUE, status |-> "", imageTag |-> "", error |-> ""]}
    \cup {[err |-> FALSE, status |-> s, imageTag |-> "", error |-> ""] :
            s \in {"pending", "running", "weird"}}
    \cup {[err |-> FALSE, status |-> "success", imageTag |-> t, error |-> ""] :
            t \in {"", "img:1"}}
    \cup {[err |-> FALSE, status |-> "failed", imageTag |-> "", error |-> e] :
            e \in {"", "boom"}}

QueryEvent(resp) == [ev |-> "query", resp |-> resp]

SleepEvent ==
    [ev |-> "sleep",
     resp |-> [err |-> FALSE, status |-> "", imageTag |-> "", error |-> ""]]

InitPoll ==
    /\ OthersIdle("poll")
    /\ pollPc = "upload"
    /\ now = 0
    /\ deadline = 0
    /\ lastStatus = ""
    /\ pollResult = "none"
    /\ pollTrace = <<>>

\* client.UploadBuild whose error is only remembered: the loop is entered
\* all the same (a bug the claims about a failed submission must detect).
UploadBuild_EntersLoopOnError ==
    /\ pollPc = "upload"
    /\ \E ok \in BOOLEAN :
         /\ pollPc' = "loop"
         /\ deadline' = now + PollTimeoutTicks
         /\ pollResult' = IF ok THEN "none" ELSE "UploadFailed"
    /\ UNCHANGED <<now, lastStatus, pollTrace, notPoll>>

\* client.UploadBuild: on an error the function returns it; otherwise the
\* deadline is taken and the loop is entered.
UploadBuild ==
    /\ pollPc = "upload"
    /\ \E ok \in BOOLEAN :
         IF ok
         THEN /\ pollPc' = "loop"
              /\ deadline' = now + PollTimeoutTicks
              /\ pollResult' = "none"
         ELSE /\ pollPc' = "done"
              /\ deadline' = deadline
              /\ pollResult' = "UploadFailed"
    /\ UNCHANGED <<now, lastStatus, pollTrace, notPoll>>

\* for time.Now().Before(deadline) { ... }; after the loop: the timeout error.
LoopCheck ==
    /\ pollPc = "loop"
    /\ IF now < deadline
       THEN pollPc' = "query" /\ pollResult' = pollResult
       ELSE pollPc' = "done" /\ pollResult' = "BuildTimeout"
    /\ UNCHANGED <<now, deadline, lastStatus, pollTrace, notPoll>>

\* case "failed": handled like a status that is still in progress (a bug the
\* claims about the failed status must detect).
OnFailed_KeepsPolling(resp) ==
    /\ pollPc' = "sleep"
    /\ pollResult' = pollResult

\* case "failed": return fmt.Errorf("build failed: %s", errMsg)
OnFailed(resp) ==
    /\ pollPc' = "done"
    /\ pollResult' = "BuildFailed"

\* case "success": handled like a status that is still in progress (a bug
\* the claims about the ways the loop returns must detect).
OnSuccess_KeepsPolling(resp) ==
    /\ pollPc' = "sleep"
    /\ pollResult' = pollResult

\* case "success": ... return nil
OnSuccess(resp) ==
    /\ pollPc' = "done"
    /\ pollResult' = "Success"

\* The branches that should wait return the build-failed error instead (a
\* bug the claims about retried queries must detect).
OnRetry_ReturnsFailed(resp) ==
    /\ pollPc' = "done"
    /\ pollResult' = "BuildFailed"

\* the err != nil branch, case "pending", "running", and default: sleep one
\* interval and go round the loop again.
OnRetry(resp) ==
    /\ pollPc' = "sleep"
    /\ pollResult' = pollResult

\* One iteration's body up to its return or its sleep: the status query and
\* the switch on its answer.
GetBuildStatusStep ==
    /\ pollPc = "query"
    /\ \E resp \in StatusResponses, dur \in 0..MaxQueryTicks :
         /\ now' = now + dur
         /\ pollTrace' = Append(pollTrace, QueryEvent(resp))
         /\ IF resp.err
            THEN OnRetry(resp) /\ lastStatus' = lastStatus
            ELSE /\ lastStatus' = resp.status
                 /\ CASE resp.status = "success" -> OnSuccess(resp)
                      [] resp.status = "failed" -> OnFailed(resp)
                      [] resp.status \in {"pending", "running"} -> OnRetry(resp)
                      [] OTHER -> OnRetry(resp)
    /\ UNCHANGED <<deadline, notPoll>>

\* time.Sleep(pollInterval)
Sleep ==
    /\ pollPc = "sleep"
    /\ now' = now + PollIntervalTicks
    /\ pollTrace' = Append(pollTrace, SleepEvent)
    /\ pollPc' = "loop"
    /\ UNCHANGED <<deadline, lastStatus, pollResult, notPoll>>

NextPoll ==
    \/ UploadBuild
    \/ LoopCheck
    \/ GetBuildStatusStep
    \/ Sleep

SpecPoll == InitPoll /\ [][NextPoll]_vars

\* The positions of the trace at which a query was answered "failed".
FailedAt ==
    {i \in 1..Len(pollTrace) :
        /\ pollTrace[i].ev = "query"
        /\ ~pollTrace[i].resp.err
        /\ pollTrace[i].resp.status = "failed"}

\* C1: the first successful status query answered "failed" makes
\* BuildProjectOnServer return the build-failed error in that iteration: the
\* query is the last event of the run (no later query, no sleep), the function
\* has returned, and it returned BuildFailed, whatever time is left.
C1_FailedReturnsAtOnce ==
    \A i \in FailedAt :
        /\ i = Len(pollTrace)
        /\ pollPc = "done"
        /\ pollResult = "BuildFailed"

\* C1 witness: a run that polled and slept at least once, then saw "failed"
\* with time left before the deadline.
C1_Witness ==
    /\ FailedAt # {}
    /\ Len(pollTrace) >= 3
    /\ now < deadline
    /\ pollResult = "BuildFailed"

----------------------------------------------------------------------------
(***************************************************************************)
(* Log stream readers                                                      *)
(***************************************************************************)

\* The longest stream the model delivers, in lines.
MaxLines == 3

DataPrefix == <<"d", "a", "t", "a", ":", " ">>

EventPrefix == <<"e", "v", "e", "n", "t", ":", " ">>

DoneData == <<"[", "D", "O", "N", "E", "]">>

ErrorEvent == <<"e", "r", "r", "o", "r">>

\* The lines a log stream is made of.
LineDone == DataPrefix \o DoneData

LineError == EventPrefix \o ErrorEvent

LineLog == DataPrefix \o <<"o", "k">>

LineLogDoneish == DataPrefix \o DoneData \o <<" ">>

LinePing == EventPrefix \o <<"p">>

LineComment == <<":", "c">>

StreamLines == {LineDone, LineError, LineLog, LineLogDoneish, LinePing, LineComment}

RECURSIVE SeqsUpTo(_, _)
\* All sequences over S of length at most n.
SeqsUpTo(S, n) ==
    IF n = 0 THEN {<<>>}
    ELSE LET shorter == SeqsUpTo(S, n - 1)
         IN  shorter \cup {Append(q, x) : q \in {r \in shorter : Len(r) = n - 1}, x \in S}

InitSSE ==
    /\ OthersIdle("sse")
    /\ sseReader \in {"deploy", "builds"}
    /\ sseStream \in SeqsUpTo(StreamLines, MaxLines)
    /\ sseReadErr \in BOOLEAN
    /\ ssePos = 0
    /\ sseOut = <<>>
    /\ sseResult = "none"

\* The body of readSSELogs' loop for one scanned line: what is printed and
\* what, if anything, is returned.
DeployLine(line) ==
    IF HasPrefix(line, DataPrefix)
    THEN LET data == TrimPrefix(line, DataPrefix)
         IN  IF data = DoneData
             THEN [out |-> <<>>, result |-> "ok"]
             ELSE [out |-> <<data>>, result |-> "none"]
    ELSE IF HasPrefix(line, EventPrefix)
    THEN LET event == TrimPrefix(line, EventPrefix)
         IN  IF event = ErrorEvent
             THEN [out |-> <<>>, result |-> "build failed"]
             ELSE [out |-> <<>>, result |-> "none"]
    ELSE [out |-> <<>>, result |-> "none"]

\* The body of readSSELogsBuilds' loop for one scanned line.
BuildsLine(line) ==
    IF HasPrefix(line, DataPrefix)
    THEN LET data == TrimPrefix(line, DataPrefix)
         IN  IF data = DoneData
             THEN [out |-> <<>>, result |-> "ok"]
             ELSE [out |-> <<data>>, result |-> "none"]
    ELSE [out |-> <<>>, result |-> "none"]

\* readSSELogs: scanner.Scan() delivered a line.
ReadSSELogsLine ==
    /\ sseReader = "deploy"
    /\ sseResult = "none"
    /\ ssePos < Len(sseStream)
    /\ LET r == DeployLine(sseStream[ssePos + 1])
       IN  /\ ssePos' = ssePos + 1
           /\ sseOut' = sseOut \o r.out
           /\ sseResult' = r.result
    /\ UNCHANGED <<sseReader, sseStream, sseReadErr, notSSE>>

\* readSSELogsBuilds: scanner.Scan() delivered a line.
ReadSSELogsBuildsLine ==
    /\ sseReader = "builds"
    /\ sseResult = "none"
    /\ ssePos < Len(sseStream)
    /\ LET r == BuildsLine(sseStream[ssePos + 1])
       IN  /\ ssePos' = ssePos + 1
           /\ sseOut' = sseOut \o r.out
           /\ sseResult' = r.result
    /\ UNCHANGED <<sseReader, sseStream, sseReadErr, notSSE>>

\* Either reader: scanner.Scan() returned false; return scanner.Err(), which
\* is nil at end of input.
ReadSSEEnd ==
    /\ sseReader \in {"deploy", "builds"}
    /\ sseResult = "none"
    /\ ssePos = Len(sseStream)
    /\ sseResult' = IF sseReadErr THEN "read error" ELSE "ok"
    /\ UNCHANGED <<sseReader, sseStream, sseReadErr, ssePos, sseOut, notSSE>>

NextSSE ==
    \/ ReadSSELogsLine
    \/ ReadSSELogsBuildsLine
    \/ ReadSSEEnd

SpecSSE == InitSSE /\ [][NextSSE]_vars

\* The first position of the stream holding the given line, 0 if none.
FirstLine(line) ==
    LET at == {i \in 1..Len(sseStream) : sseStream[i] = line}
    IN  IF at = {} THEN 0 ELSE CHOOSE i \in at : \A j \in at : i <= j

\* The payloads of the log lines among the first n lines of the stream.
RECURSIVE PayloadsUpTo(_)
PayloadsUpTo(n) ==
    IF n = 0 THEN <<>>
    ELSE PayloadsUpTo(n - 1) \o
         (CASE sseStream[n] = LineLog -> <<(<<"o", "k">>)>>
            [] sseStream[n] = LineLogDoneish -> <<DoneData \o <<" ">>>>
            [] OTHER -> <<>>)

\* What C2 says of one reader once it has returned.
SSEContract ==
    LET d == FirstLine(LineDone)
        e == FirstLine(LineError)
    IN  sseResult # "none" =>
          /\ (d > 0 /\ (e = 0 \/ d < e)) =>
                sseResult = "ok" /\ ssePos = d /\ sseOut = PayloadsUpTo(d)
          /\ (e > 0 /\ (d = 0 \/ e < d)) =>
                sseResult = "build failed" /\ ssePos = e /\ sseOut = PayloadsUpTo(e)
          /\ (d = 0 /\ e = 0) => sseOut = PayloadsUpTo(Len(sseStream))

\* C2: every reader of a log stream ends with success at `data: [DONE]`
\* without processing a later line, ends with a failure at an `event: error`
\* seen before any [DONE], and passes every other `data: ` payload through.
C2_EveryReaderHonoursDoneAndError ==
    sseReader \in {"deploy", "builds"} => SSEContract

\* C2, for the deploy reader alone (readSSELogs).
C2_DeployReaderHonoursDoneAndError ==
    sseReader = "deploy" => SSEContract

----------------------------------------------------------------------------
(***************************************************************************)
(* ParseFunctionsFromFlag                                                  *)
(***************************************************************************)

\* The most items a flag value of the model has.
MaxItems == 2

TrueText == <<"t", "r", "u", "e">>

OneText == <<"1">>

YesText == <<"y", "e", "s">>

\* val == "true" || val == "1" || val == "yes", accepting anything non-empty
\* (a bug the claims about the GPU value must detect).
IsTrueValue_AnyNonEmpty(val) == val # <<>>

\* val == "true" || val == "1" || val == "yes"
IsTrueValue(val) == val = TrueText \/ val = OneText \/ val = YesText

\* The loop body of ParseFunctionsFromFlag for one pair: the entries it
\* appends (none or one).
ParsePair(pair) ==
    LET parts == SplitN2(TrimSpace(pair), ":")
    IN  IF Len(parts) = 0 \/ parts[1] = <<>>
        THEN <<>>
        ELSE LET funcName == TrimSpace(parts[1])
                 requiresGPU ==
                     IF Len(parts) = 2
                     THEN IsTrueValue(ToLower(TrimSpace(parts[2])))
                     ELSE TRUE
             IN  <<[Name |-> funcName, RequiresGPU |-> requiresGPU]>>

RECURSIVE ParsePairs(_)
\* for _, pair := range pairs { ... }
ParsePairs(pairs) ==
    IF pairs = <<>> THEN <<>>
    ELSE ParsePair(Head(pairs)) \o ParsePairs(Tail(pairs))

\* ParseFunctionsFromFlag: the list it returns (it never returns an error;
\* the nil slice of the empty flag is the empty list).
ParseFunctionsFromFlag(spec) ==
    IF spec = <<>> THEN <<>> ELSE ParsePairs(Split(spec, ","))

\* The parts an item of the model is made of.
ItemNames == {<<>>, <<"g", "e", "n">>, <<"h">>}

ItemValues ==
    {TrueText, <<"Y", "e", "s">>, OneText,
     <<"f", "a", "l", "s", "e">>, <<"n", "o">>, <<>>}

ItemPads == {<<>>, <<" ">>}

\* An item: a name (possibly missing), an optional `:value` part, and the
\* same padding around the name and the value.
FlagItemSet ==
    [name : ItemNames, hasValue : {FALSE}, value : {<<>>}, pad : ItemPads]
    \cup [name : ItemNames, hasValue : {TRUE}, value : ItemValues, pad : ItemPads]

\* The text of an item as the operator types it.
ItemText(it) ==
    it.pad \o it.name \o it.pad \o
    (IF it.hasValue THEN <<":">> \o it.pad \o it.value \o it.pad ELSE <<>>)

ItemTexts(items) == [i \in 1..Len(items) |-> ItemText(items[i])]

InitFlag ==
    /\ OthersIdle("flag")
    /\ flagItems \in SeqsUpTo(FlagItemSet, MaxItems)
    /\ flagSpec = Join(ItemTexts(flagItems), <<",">>)
    /\ flagPc = "call"
    /\ flagOut = <<>>

\* The command calls build.ParseFunctionsFromFlag(opts.Functions).
CallParseFunctionsFromFlag ==
    /\ flagPc = "call"
    /\ flagPc' = "done"
    /\ flagOut' = ParseFunctionsFromFlag(flagSpec)
    /\ UNCHANGED <<flagItems, flagSpec, notFlag>>

NextFlag == CallParseFunctionsFromFlag

SpecFlag == InitFlag /\ [][NextFlag]_vars

\* The spellings that switch GPU on, as the claim lists them (any case).
GpuSpellings == {TrueText, <<"Y", "e", "s">>, OneText}

\* The entry an item stands for.
EntryOf(it) ==
    [Name |-> it.name, RequiresGPU |-> (~it.hasValue \/ it.value \in GpuSpellings)]

\* An item with some text other than white space.
NonEmptyItem(it) == TrimSpace(ItemText(it)) # <<>>

\* An item whose name is not missing.
NamedItem(it) == it.name # <<>>

RECURSIVE EntriesWhere(_, _)
\* The entries of the items kept, in input order: the named items when
\* byName, the non-empty items otherwise.
EntriesWhere(items, byName) ==
    IF items = <<>> THEN <<>>
    ELSE LET it == Head(items)
             keep == IF byName THEN NamedItem(it) ELSE NonEmptyItem(it)
         IN  (IF keep THEN <<EntryOf(it)>> ELSE <<>>)
             \o EntriesWhere(Tail(items), byName)

\* C4 as stated: one entry per non-empty item, in input order, names and
\* values trimmed, GPU required when there is no value or the value is one of
\* true, 1, yes in any case.
C4_OneEntryPerNonEmptyItem ==
    flagPc = "done" =>
        flagOut = EntriesWhere(flagItems, FALSE)

\* C4 amended: one entry per item that has a non-empty name before its first
\* colon; a blank item and an item that starts with a colon yield no entry.
\* The rest as stated: input order, trimmed names and values, GPU required
\* when there is no value or the value is one of true, 1, yes in any case;
\* the empty flag yields no entries.
C4_OneEntryPerNamedItem ==
    flagPc = "done" =>
        flagOut = EntriesWhere(flagItems, TRUE)

\* C4 witness: "gen:true,h:false" was parsed to [{gen,true},{h,false}].
C4_Witness ==
    /\ flagPc = "done"
    /\ flagSpec = <<"g", "e", "n", ":", "t", "r", "u", "e", ",",
                    "h", ":", "f", "a", "l", "s", "e">>
    /\ flagOut = <<[Name |-> <<"g", "e", "n">>, RequiresGPU |-> TRUE],
                   [Name |-> <<"h">>, RequiresGPU |-> FALSE]>>

----------------------------------------------------------------------------
(***************************************************************************)
(* Base image resolver                                                     *)
(***************************************************************************)

DefaultRegistry == <<"c", "o", "z", "y", "c", "r", "e", "a", "t", "o", "r", "/", "g", "e", "n", "-", "w", "o", "r", "k", "e", "r">>

DefaultPython == <<"3", ".", "1", "1">>

DefaultTorchTag == <<"t", "o", "r", "c", "h", "2", ".", "9">>

SupportedCudaVersions == {<<"1", "3">>, <<"1", "2", ".", "8">>, <<"1", "2", ".", "6">>}

\* normalizePython
normalizePython(v) ==
    LET t == TrimPrefix(TrimPrefix(TrimSpace(v), <<"p", "y", "t", "h", "o", "n">>), <<"p", "y">>)
        parts == Split(t, ".")
    IN  IF Len(parts) >= 2 THEN parts[1] \o <<".">> \o parts[2] ELSE t

\* normalizeCuda dropping every trailing zero of the minor version (what the
\* code would be if it normalised 12.60 to 12.6).
RECURSIVE DropTrailingZeros(_)
DropTrailingZeros(m) ==
    IF m # <<>> /\ m[Len(m)] = "0" THEN DropTrailingZeros(SubSeq(m, 1, Len(m) - 1)) ELSE m

normalizeCuda_DropsEveryTrailingZero(v) ==
    LET t == TrimPrefix(TrimPrefix(TrimSpace(v), <<"c", "u", "d", "a">>), <<"c", "u">>)
        parts == Split(t, ".")
    IN  IF Len(parts) >= 2
        THEN IF DropTrailingZeros(parts[2]) = <<>>
             THEN parts[1]
             ELSE parts[1] \o <<".">> \o DropTrailingZeros(parts[2])
        ELSE t

\* normalizeCuda
normalizeCuda(v) ==
    LET t == TrimPrefix(TrimPrefix(TrimSpace(v), <<"c", "u", "d", "a">>), <<"c", "u">>)
        parts == Split(t, ".")
    IN  IF Len(parts) >= 2
        THEN IF parts[2] = <<"0">>
             THEN parts[1]
             ELSE parts[1] \o <<".">> \o parts[2]
        ELSE t

\* isSupportedCuda
isSupportedCuda(v) == v \in SupportedCudaVersions

\* fmt.Sprintf("%s:cuda%s-%s", DefaultRegistry, cuda, DefaultTorchTag), or the
\* unsupported CUDA version error, whose message names the normalized version
GpuImage(cudaText) ==
    LET cuda == normalizeCuda(cudaText)
    IN  IF ~isSupportedCuda(cuda)
        THEN [err |-> "unsupported CUDA version", errArg |-> cuda, image |-> <<>>]
        ELSE [err |-> "", errArg |-> <<>>,
              image |-> DefaultRegistry \o <<":", "c", "u", "d", "a">> \o cuda \o <<"-">> \o DefaultTorchTag]

\* ResolveBaseImage resolving CUDA without pytorch to the CPU image (a bug
\* the claims about the precedence of cuda must detect).
ResolveBaseImage_CudaNeedsPytorch(cfg) ==
    IF cfg.Pytorch # <<>> /\ cfg.Cuda # <<>> THEN GpuImage(cfg.Cuda)
    ELSE [err |-> "", errArg |-> <<>>, image |-> DefaultRegistry \o <<":", "c", "p", "u", "-">> \o DefaultTorchTag]

\* ResolveBaseImage
ResolveBaseImage(cfg) ==
    LET hasPytorch == cfg.Pytorch # <<>>
        hasCuda == cfg.Cuda # <<>>
    IN  CASE hasPytorch /\ hasCuda -> GpuImage(cfg.Cuda)
          [] hasPytorch /\ ~hasCuda ->
                [err |-> "", errArg |-> <<>>, image |-> DefaultRegistry \o <<":", "c", "p", "u", "-">> \o DefaultTorchTag]
          [] ~hasPytorch /\ hasCuda -> GpuImage(cfg.Cuda)
          [] OTHER ->
                LET py == normalizePython(cfg.Python)
                IN  [err |-> "", errArg |-> <<>>,
                     image |-> <<"p", "y", "t", "h", "o", "n", ":">> \o (IF py = <<>> THEN DefaultPython ELSE py)
                               \o <<"-", "s", "l", "i", "m">>]

\* A version as an operator may write it in the manifest: an optional
\* prefix, major, optional minor and patch, optional surrounding blanks.
\* major <<>> with a prefix is the bare prefix; all parts empty is "unset".
VersionShapes(prefixes, majors, minors) ==
    {[prefix |-> <<>>, pad |-> <<>>, major |-> <<>>, minor |-> <<>>, patch |-> <<>>]}
    \cup [prefix : prefixes \ {<<>>}, pad : {<<>>}, major : {<<>>},
          minor : {<<>>}, patch : {<<>>}]
    \cup [prefix : prefixes, pad : {<<>>, <<" ">>}, major : majors,
          minor : {<<>>}, patch : {<<>>}]
    \cup [prefix : prefixes, pad : {<<>>, <<" ">>}, major : majors,
          minor : minors, patch : {<<>>, <<"1">>}]

\* The text of a version.
VersionText(v) ==
    v.pad \o v.prefix \o v.major
    \o (IF v.minor = <<>> THEN <<>> ELSE <<".">> \o v.minor)
    \o (IF v.patch = <<>> THEN <<>> ELSE <<".">> \o v.patch)
    \o v.pad

CudaShapes ==
    VersionShapes({<<>>, <<"c", "u", "d", "a">>, <<"c", "u">>},
                  {<<"1", "2">>, <<"1", "3">>, <<"1", "1">>},
                  {<<"0">>, <<"6">>, <<"8">>, <<"6", "0">>})

PythonShapes ==
    VersionShapes({<<>>, <<"p", "y", "t", "h", "o", "n">>, <<"p", "y">>}, {<<"3">>}, {<<"1", "1">>, <<"9">>})

PytorchTexts == {<<>>, <<"2", ".", "5">>}

InitImg ==
    /\ OthersIdle("img")
    /\ imgCfg \in [python : {p \in PythonShapes : p.pad = <<>>},
                   pytorch : PytorchTexts, cuda : CudaShapes]
    /\ imgPc = "call"
    /\ imgOut = [err |-> "", errArg |-> <<>>, image |-> <<>>]

\* The pipeline calls build.ResolveBaseImage(cozyConfig).
CallResolveBaseImage ==
    /\ imgPc = "call"
    /\ imgPc' = "done"
    /\ imgOut' = ResolveBaseImage([Python |-> VersionText(imgCfg.python),
                                   Pytorch |-> imgCfg.pytorch,
                                   Cuda |-> VersionText(imgCfg.cuda)])
    /\ UNCHANGED <<imgCfg, notImg>>

NextImg == CallResolveBaseImage

SpecImg == InitImg /\ [][NextImg]_vars

\* major.minor of a version, without prefix, blanks and patch.
MajorMinor(v) ==
    IF v.minor = <<>> THEN v.major ELSE v.major \o <<".">> \o v.minor

\* The normalized CUDA version of a shape when only a minor version that is
\* exactly "0" is dropped.
CudaNormZeroMinor(v) == IF v.minor = <<"0">> THEN v.major ELSE MajorMinor(v)

\* The normalized CUDA version of a shape when a trailing zero of the minor
\* version is dropped: 12.60 becomes 12.6 and 13.0 becomes 13.
CudaNormTrailingZero(v) ==
    IF v.minor = <<>> THEN v.major
    ELSE IF v.minor[Len(v.minor)] # "0" THEN MajorMinor(v)
    ELSE IF Len(v.minor) = 1 THEN v.major
    ELSE v.major \o <<".">> \o SubSeq(v.minor, 1, Len(v.minor) - 1)

\* The result C5 describes for the configuration.
ExpectedImage ==
    LET cudaSet == VersionText(imgCfg.cuda) # <<>>
        torchSet == imgCfg.pytorch # <<>>
        cuda == CudaNormZeroMinor(imgCfg.cuda)
        py == MajorMinor(imgCfg.python)
    IN  IF cudaSet
        THEN IF cuda \in {<<"1", "3">>, <<"1", "2", ".", "8">>, <<"1", "2", ".", "6">>}
             THEN [err |-> "", errArg |-> <<>>, image |-> <<"c", "o", "z", "y", "c", "r", "e", "a", "t", "o", "r", "/", "g", "e", "n", "-", "w", "o", "r", "k", "e", "r", ":", "c", "u", "d", "a">> \o cuda \o <<"-", "t", "o", "r", "c", "h", "2", ".", "9">>]
             ELSE [err |-> "unsupported CUDA version", errArg |-> cuda, image |-> <<>>]
        ELSE IF torchSet
        THEN [err |-> "", errArg |-> <<>>, image |-> <<"c", "o", "z", "y", "c", "r", "e", "a", "t", "o", "r", "/", "g", "e", "n", "-", "w", "o", "r", "k", "e", "r", ":", "c", "p", "u", "-", "t", "o", "r", "c", "h", "2", ".", "9">>]
        ELSE [err |-> "", errArg |-> <<>>,
              image |-> <<"p", "y", "t", "h", "o", "n", ":">> \o (IF py = <<>> THEN <<"3", ".", "1", "1">> ELSE py) \o <<"-", "s", "l", "i", "m">>]

\* C5: ResolveBaseImage maps every (python, pytorch, cuda) triple to the GPU
\* image of the normalized cuda version when cuda is set (an unsupported
\* runtime error when that version is not 13, 12.8 or 12.6), to the CPU
\* pytorch image when only pytorch is set, and to python:<version>-slim
\* (3.11 when python is unspecified) without error when neither is set.
C5_ResolveBaseImageTable ==
    imgPc = "done" => imgOut = ExpectedImage

\* C5 witness: pytorch="2.5", cuda="12.6" gave
\* cozycreator/gen-worker:cuda12.6-torch2.9.
C5_Witness ==
    /\ imgPc = "done"
    /\ imgCfg.pytorch = <<"2", ".", "5">>
    /\ VersionText(imgCfg.cuda) = <<"1", "2", ".", "6">>
    /\ imgOut = [err |-> "", errArg |-> <<>>, image |-> <<"c", "o", "z", "y", "c", "r", "e", "a", "t", "o", "r", "/", "g", "e", "n", "-", "w", "o", "r", "k", "e", "r", ":", "c", "u", "d", "a", "1", "2", ".", "6", "-", "t", "o", "r", "c", "h", "2", ".", "9">>]

\* The normalized CUDA version the resolver used, read off its result: the
\* text between ":cuda" and "-torch2.9" of the image tag, or the version the
\* unsupported-version error names.
UsedCuda ==
    IF imgOut.err # "" THEN imgOut.errArg
    ELSE SubSeq(imgOut.image, Len(<<"c", "o", "z", "y", "c", "r", "e", "a", "t", "o", "r", "/", "g", "e", "n", "-", "w", "o", "r", "k", "e", "r", ":", "c", "u", "d", "a">>) + 1, Len(imgOut.image) - Len(<<"-", "t", "o", "r", "c", "h", "2", ".", "9">>))

\* C6 as stated: normalization strips the prefix, keeps major.minor and drops
\* a trailing zero of the minor version, so that cuda12.60 gives 12.6 and
\* cuda13.0 gives 13.
C6_DropsTrailingZeroOfMinor ==
    (imgPc = "done" /\ VersionText(imgCfg.cuda) # <<>>) =>
        UsedCuda = CudaNormTrailingZero(imgCfg.cuda)

\* C6 amended: normalization strips the prefix, keeps major.minor and drops
\* the minor version only when it is exactly "0": cuda13.0 gives 13, while
\* cuda12.60 stays 12.60.
C6_DropsZeroMinorOnly ==
    (imgPc = "done" /\ VersionText(imgCfg.cuda) # <<>>) =>
        UsedCuda = CudaNormZeroMinor(imgCfg.cuda)

\* C6 witness: "cuda13.0" was normalized to "13", and the resolver returned
\* the image of CUDA 13.
C6_Witness ==
    /\ imgPc = "done"
    /\ VersionText(imgCfg.cuda) = <<"c", "u", "d", "a", "1", "3", ".", "0">>
    /\ imgOut.err = ""
    /\ UsedCuda = <<"1", "3">>

----------------------------------------------------------------------------
(***************************************************************************)
(* update.Run: the update pipeline                                         *)
(***************************************************************************)

\* Values of the --functions flag: unset, one function, and a flag that is
\* set but names no function.
FlagValues == {<<>>, <<"f", ":", "1">>, <<",">>}

\* Function tables of the manifest, [tool.cozy.functions].
ManifestTables ==
    {{},
     {[Name |-> <<"m">>, RequiresGPU |-> FALSE]},
     {[Name |-> <<"m">>, RequiresGPU |-> FALSE], [Name |-> <<"n">>, RequiresGPU |-> TRUE]}}

\* Results of the source scan of the project.
ScanResults == {<<>>, <<[Name |-> <<"s">>, RequiresGPU |-> TRUE]>>}

\* The --min-workers and --max-workers values; -1 is the flags' default.
WorkerValues == {-1, 0, 2}

CudaTexts == {<<>>, <<"1", "2", ".", "6">>, <<"1", "1", ".", "8">>}

NoEffects == [dockerfile |-> FALSE, build |-> FALSE, requests |-> <<>>]

InitUpd ==
    /\ OthersIdle("upd")
    /\ updOpts \in [DryRun : BOOLEAN, Functions : FlagValues, MinWorkers : WorkerValues,
                    MaxWorkers : {-1, 3}, ImageOnly : BOOLEAN]
    /\ updManifest \in ManifestTables
    /\ updScan \in ScanResults
    /\ updCuda \in CudaTexts
    /\ updPc = "getDeployment"
    /\ updFunctions = <<>>
    /\ updConsulted = {}
    /\ updEffects = NoEffects
    /\ updResult = "none"

\* Run returns with the given result.
UpdReturn(result) ==
    /\ updPc' = "done"
    /\ updResult' = result

\* The existence check whose error is only remembered: the run goes on to
\* the selection of the functions (a bug the claims about the existence
\* check must detect).
UpdGetDeployment_GoesOn ==
    /\ updPc = "getDeployment"
    /\ updPc' = "functions"
    /\ \E answer \in {"found", "missing", "error"} :
         CASE answer = "error" -> updResult' = "failed to check deployment"
           [] answer = "missing" -> updResult' = "deployment not found"
           [] OTHER -> updResult' = updResult
    /\ UNCHANGED <<updOpts, updManifest, updScan, updCuda, updFunctions,
                   updConsulted, updEffects, notUpd>>

\* existing, err := client.GetDeployment(...): an error, nil (404), or the
\* deployment.
UpdGetDeployment ==
    /\ updPc = "getDeployment"
    /\ \E answer \in {"found", "missing", "error"} :
         CASE answer = "error" -> UpdReturn("failed to check deployment")
           [] answer = "missing" -> UpdReturn("deployment not found")
           [] OTHER -> updPc' = "functions" /\ updResult' = updResult
    /\ UNCHANGED <<updOpts, updManifest, updScan, updCuda, updFunctions,
                   updConsulted, updEffects, notUpd>>

\* The source the function list is taken from, asking the manifest before the
\* flag (a bug the claims about the priority order must detect).
FunctionSource_ManifestFirst(opts, manifest) ==
    IF manifest # {} THEN "manifest"
    ELSE IF opts.Functions # <<>> THEN "flag"
    ELSE "scan"

\* The if / else if / else of Run: which source the function list is taken
\* from when the run is not image-only.
FunctionSource(opts, manifest) ==
    IF opts.Functions # <<>> THEN "flag"
    ELSE IF Cardinality(manifest) > 0 THEN "manifest"
    ELSE "scan"

\* The orders in which a range over the manifest's map may deliver it.
Orderings(table) ==
    {q \in SeqsUpTo(table, Cardinality(table)) :
        Len(q) = Cardinality(table) /\ {q[i] : i \in 1..Len(q)} = table}

\* if !opts.ImageOnly { ... }: detect or parse the functions.
UpdSelectFunctions ==
    /\ updPc = "functions"
    /\ IF updOpts.ImageOnly
       THEN UNCHANGED <<updFunctions, updConsulted>>
       ELSE LET source == FunctionSource(updOpts, updManifest)
            IN  /\ updConsulted' = updConsulted \cup {source}
                /\ CASE source = "flag" ->
                          updFunctions' = ParseFunctionsFromFlag(updOpts.Functions)
                     [] source = "manifest" ->
                          updFunctions' \in Orderings(updManifest)
                     [] OTHER -> updFunctions' = updScan
    /\ updPc' = "image"
    /\ UNCHANGED <<updOpts, updManifest, updScan, updCuda, updEffects, updResult, notUpd>>

\* UpdPlan without the dry-run return (a bug the claims about the dry run
\* must detect).
UpdPlan_IgnoresDryRun ==
    /\ updPc = "image"
    /\ LET base == ResolveBaseImage([Python |-> <<>>, Pytorch |-> <<>>, Cuda |-> updCuda])
       IN  IF base.err # ""
           THEN UpdReturn("failed to resolve base image")
           ELSE \E generated \in BOOLEAN :
                  IF ~generated THEN UpdReturn("failed to generate Dockerfile")
                  ELSE updPc' = "write" /\ updResult' = updResult
    /\ UNCHANGED <<updOpts, updManifest, updScan, updCuda, updFunctions,
                   updConsulted, updEffects, notUpd>>

\* ResolveBaseImage, GenerateDockerfile, the image tag, and the dry-run
\* return.
UpdPlan ==
    /\ updPc = "image"
    /\ LET base == ResolveBaseImage([Python |-> <<>>, Pytorch |-> <<>>, Cuda |-> updCuda])
       IN  IF base.err # ""
           THEN UpdReturn("failed to resolve base image")
           ELSE \E generated \in BOOLEAN :
                  IF ~generated THEN UpdReturn("failed to generate Dockerfile")
                  ELSE IF updOpts.DryRun THEN UpdReturn("ok")
                  ELSE updPc' = "write" /\ updResult' = updResult
    /\ UNCHANGED <<updOpts, updManifest, updScan, updCuda, updFunctions,
                   updConsulted, updEffects, notUpd>>

\* os.WriteFile(dockerfilePath, ...)
UpdWriteDockerfile ==
    /\ updPc = "write"
    /\ \E written \in BOOLEAN :
         IF written
         THEN /\ updEffects' = [updEffects EXCEPT !.dockerfile = TRUE]
              /\ updPc' = "build"
              /\ updResult' = updResult
         ELSE /\ updEffects' = updEffects
              /\ UpdReturn("failed to write Dockerfile")
    /\ UNCHANGED <<updOpts, updManifest, updScan, updCuda, updFunctions,
                   updConsulted, notUpd>>

\* result := builder.Build(ctx, absPath, imageTag, buildTimeout)
UpdBuild ==
    /\ updPc = "build"
    /\ updEffects' = [updEffects EXCEPT !.build = TRUE]
    /\ \E outcome \in {"ok", "failed", "timeout"} :
         IF outcome = "ok"
         THEN updPc' = "update" /\ updResult' = updResult
         ELSE UpdReturn("docker build failed")
    /\ UNCHANGED <<updOpts, updManifest, updScan, updCuda, updFunctions,
                   updConsulted, notUpd>>

\* The UpdateDeploymentRequest Run builds; "unset" is a field left out of the
\* request body (omitempty).
UpdateRequest(opts, functions) ==
    [ImageURL |-> "imageTag",
     FunctionRequirements |->
         IF ~opts.ImageOnly /\ Len(functions) > 0 THEN functions ELSE <<>>,
     MinWorkers |-> IF opts.MinWorkers >= 0 THEN <<opts.MinWorkers>> ELSE <<>>,
     MaxWorkers |-> IF opts.MaxWorkers >= 0 THEN <<opts.MaxWorkers>> ELSE <<>>]

\* client.UpdateDeployment(cozyConfig.DeploymentID, req)
UpdSendUpdate ==
    /\ updPc = "update"
    /\ updEffects' = [updEffects EXCEPT
                        !.requests = Append(@, UpdateRequest(updOpts, updFunctions))]
    /\ \E answer \in {"ok", "notFound", "apiError", "unreachable"} :
         IF answer = "ok" THEN UpdReturn("ok")
         ELSE UpdReturn("failed to update deployment")
    /\ UNCHANGED <<updOpts, updManifest, updScan, updCuda, updFunctions,
                   updConsulted, notUpd>>

NextUpd ==
    \/ UpdGetDeployment
    \/ UpdSelectFunctions
    \/ UpdPlan
    \/ UpdWriteDockerfile
    \/ UpdBuild
    \/ UpdSendUpdate

SpecUpd == InitUpd /\ [][NextUpd]_vars

\* Run is past the selection of the function list.
FunctionsSelected == updPc \in {"image", "write", "build", "update", "done"}
                     /\ updResult \notin {"failed to check deployment", "deployment not found"}

\* The source the claim names for the run's options and manifest.
PrioritySource ==
    IF updOpts.Functions # <<>> THEN "flag"
    ELSE IF updManifest # {} THEN "manifest"
    ELSE "scan"

\* The names a source can contribute; the model gives the three sources
\* different names, so an entry shows where it comes from.
SourceNames(source) ==
    CASE source = "flag" -> {<<"f">>}
      [] source = "manifest" -> {e.Name : e \in updManifest}
      [] OTHER -> {updScan[i].Name : i \in 1..Len(updScan)}

FunctionNames == {updFunctions[i].Name : i \in 1..Len(updFunctions)}

\* The function list is the whole list of the source.
ListIsFrom(source) ==
    CASE source = "flag" ->
            updFunctions = IF updOpts.Functions = <<"f", ":", "1">>
                           THEN <<[Name |-> <<"f">>, RequiresGPU |-> TRUE]>>
                           ELSE <<>>
      [] source = "manifest" ->
            /\ Len(updFunctions) = Cardinality(updManifest)
            /\ {updFunctions[i] : i \in 1..Len(updFunctions)} = updManifest
      [] OTHER -> updFunctions = updScan

\* C3 as stated: the function list of every update run comes from exactly one
\* source, the highest-priority one that is present; no other source is
\* consulted and no entry of another source is in the list.
C3_ExactlyOneSourceByPriority ==
    FunctionsSelected =>
        /\ updConsulted = {PrioritySource}
        /\ ListIsFrom(PrioritySource)
        /\ FunctionNames \subseteq SourceNames(PrioritySource)

\* C3 amended: unless the run is image-only, the function list comes from
\* exactly one source, the highest-priority one that is present; an
\* image-only run consults no source and has an empty list.  In every run a
\* lower-priority source is never consulted when a higher one is present and
\* entries of different sources are never combined.
C3_OneSourceUnlessImageOnly ==
    /\ Cardinality(updConsulted) <= 1
    /\ updConsulted \subseteq {PrioritySource}
    /\ FunctionNames \subseteq SourceNames(PrioritySource)
    /\ FunctionsSelected =>
         IF updOpts.ImageOnly
         THEN updConsulted = {} /\ updFunctions = <<>>
         ELSE updConsulted = {PrioritySource} /\ ListIsFrom(PrioritySource)

\* C3 witness: flag, manifest table and source scan all offer functions, and
\* the list is the flag's alone.
C3_Witness ==
    /\ FunctionsSelected
    /\ updOpts.Functions = <<"f", ":", "1">>
    /\ updManifest # {}
    /\ updScan # <<>>
    /\ updConsulted = {"flag"}
    /\ updFunctions = <<[Name |-> <<"f">>, RequiresGPU |-> TRUE]>>

\* The requests the update pipeline has sent.
UpdRequests == {updEffects.requests[i] : i \in 1..Len(updEffects.requests)}

\* The worker bound was given on the command line (-1 is the default of
\* the flag).
WorkerGiven(n) == n # -1

\* C14: the update request carries the image reference always, function
\* requirements only when not in image-only mode and a worker bound only
\* when it was given; in image-only mode it carries neither function
\* requirements nor worker bounds.
C14_OnlyFieldsSetAndImageOnlyBare ==
    \A req \in UpdRequests :
        /\ req.ImageURL = "imageTag"
        /\ req.FunctionRequirements # <<>> => ~updOpts.ImageOnly
        /\ req.MinWorkers # <<>> => WorkerGiven(updOpts.MinWorkers)
        /\ req.MaxWorkers # <<>> => WorkerGiven(updOpts.MaxWorkers)
        /\ updOpts.ImageOnly =>
            /\ req.FunctionRequirements = <<>>
            /\ req.MinWorkers = <<>>
            /\ req.MaxWorkers = <<>>

\* What does hold: the first part of C14, and an image-only request without
\* function requirements.
C14_OnlyFieldsSet ==
    \A req \in UpdRequests :
        /\ req.ImageURL = "imageTag"
        /\ req.FunctionRequirements # <<>> => ~updOpts.ImageOnly
        /\ req.MinWorkers # <<>> => WorkerGiven(updOpts.MinWorkers)
        /\ req.MaxWorkers # <<>> => WorkerGiven(updOpts.MaxWorkers)
        /\ updOpts.ImageOnly => req.FunctionRequirements = <<>>

\* C18: an update run in dry-run mode changes nothing: it writes no
\* Dockerfile, starts no build and sends no update request; it never gets
\* past the point where it prints what would be done, and what it returns
\* there is success.
C18_DryRunChangesNothing ==
    updOpts.DryRun =>
        /\ updEffects = NoEffects
        /\ updPc \notin {"write", "build", "update"}
        /\ updPc = "done" =>
            updResult \notin {"failed to write Dockerfile", "docker build failed",
                              "failed to update deployment"}

\* C18 witness: a dry run has returned success and has changed nothing.
C18_Witness ==
    /\ updOpts.DryRun
    /\ updPc = "done"
    /\ updResult = "ok"
    /\ updEffects = NoEffects

----------------------------------------------------------------------------
(***************************************************************************)
(* findSignatureEnd: the signature scanner                                 *)
(*                                                                         *)
(* Offsets are Go's: content[i] is At(content, i) and content[a:b] is      *)
(* Slice(content, a, b), both counted from 0.                              *)
(***************************************************************************)

\* i < start+1000: the forward window of the scan.
SigWindow == 1000

\* j < i+50: the window of the search for the colon.
ColonWindow == 50

\* content[i]
At(content, i) == content[i + 1]

\* content[a:b], for 0 <= a <= b <= len(content)
Slice(content, a, b) == SubSeq(content, a + 1, b)

DQ == "\""

SQ == "'"

BS == "\\"

\* c == '"' || c == '\'', taking the double quote only (a bug the claims
\* about string literals must detect).
IsQuote_DoubleOnly(c) == c = DQ

\* c == '"' || c == '\''
IsQuote(c) == c = DQ \/ c = SQ

\* What findSignatureEnd returns; a slice out of range panics.
SigFound(pos) == [panic |-> FALSE, end |-> pos]

SigNotFound == [panic |-> FALSE, end |-> -1]

SigPanic == [panic |-> TRUE, end |-> -1]

RECURSIVE ColonAfter(_, _, _)
\* for j := i + 1; j < len(content) && j < i+50; j++ { ... }; return i + 1
ColonAfter(content, i, j) ==
    IF j < Len(content) /\ j < i + ColonWindow
    THEN IF At(content, j) = ":" THEN SigFound(j + 1)
         ELSE ColonAfter(content, i, j + 1)
    ELSE SigFound(i + 1)

RECURSIVE SigScan(_, _, _, _, _, _)
\* The for loop of findSignatureEnd from offset i on, with the loop's locals.
SigScan(content, start, i, depth, inString, stringChar) ==
    IF ~(i < Len(content) /\ i < start + SigWindow) THEN SigNotFound
    ELSE
    LET c == At(content, i)
        len == Len(content)
    IN  IF ~inString /\ IsQuote(c)
        THEN \* i+2 < len(content) && content[i:i+3] == `"""` || content[i:i+3] == `'''`
             \* (&& binds tighter than ||: the second slice is unguarded)
             IF i + 2 < len /\ Slice(content, i, i + 3) = <<DQ, DQ, DQ>>
             THEN SigScan(content, start, i + 3, depth, TRUE, c)
             ELSE IF i + 3 > len THEN SigPanic
             ELSE IF Slice(content, i, i + 3) = <<SQ, SQ, SQ>>
             THEN SigScan(content, start, i + 3, depth, TRUE, c)
             ELSE SigScan(content, start, i + 1, depth, TRUE, c)
        ELSE IF inString
        THEN IF c = stringChar
             THEN IF i + 2 < len /\ Slice(content, i, i + 3) = <<stringChar, stringChar, stringChar>>
                  THEN SigScan(content, start, i + 3, depth, FALSE, stringChar)
                  ELSE IF i > 0 /\ At(content, i - 1) # BS
                  THEN SigScan(content, start, i + 1, depth, FALSE, stringChar)
                  ELSE SigScan(content, start, i + 1, depth, TRUE, stringChar)
             ELSE SigScan(content, start, i + 1, depth, TRUE, stringChar)
        ELSE IF c = "("
        THEN SigScan(content, start, i + 1, depth + 1, FALSE, stringChar)
        ELSE IF c = ")"
        THEN IF depth - 1 < 0
             THEN ColonAfter(content, i, i + 1)
             ELSE SigScan(content, start, i + 1, depth - 1, FALSE, stringChar)
        ELSE SigScan(content, start, i + 1, depth, FALSE, stringChar)

\* findSignatureEnd
findSignatureEnd(content, start) == SigScan(content, start, start, 0, FALSE, "")

\* The most tokens a parameter list of the model has.
MaxTokens == 4

\* The tokens a parameter list is made of: a name with the colon of its
\* annotation, parentheses of a default value or an annotation, a line break,
\* and string literals that hold parentheses and quotes of the other kind.
ParamTokens ==
    {<<"x", ":">>, <<"(">>, <<")">>, <<"\n">>,
     <<DQ, "(", DQ>>, <<SQ, ")", SQ>>, <<DQ, DQ>>, <<DQ, SQ, ")", DQ>>}

RECURSIVE Flatten(_)
\* The text of a token sequence.
Flatten(tokens) ==
    IF tokens = <<>> THEN <<>> ELSE Head(tokens) \o Flatten(Tail(tokens))

RECURSIVE DepthOK(_, _)
\* The parentheses among the tokens are balanced and never close more than
\* was opened.
DepthOK(tokens, depth) ==
    IF tokens = <<>> THEN depth = 0
    ELSE IF Head(tokens) = <<"(">> THEN DepthOK(Tail(tokens), depth + 1)
    ELSE IF Head(tokens) = <<")">> THEN depth > 0 /\ DepthOK(Tail(tokens), depth - 1)
    ELSE DepthOK(Tail(tokens), depth)

\* No three quotes in a row: adjacent literals that Python would read as the
\* start of a triple-quoted string are not parameter lists of this shape.
NoTripleQuote(text) ==
    \A i \in 1..(Len(text) - 2) :
        ~(text[i] = text[i + 1] /\ text[i + 1] = text[i + 2] /\ text[i] \in {DQ, SQ})

ParamLists ==
    {q \in SeqsUpTo(ParamTokens, MaxTokens) : DepthOK(q, 0) /\ NoTripleQuote(Flatten(q))}

\* "def f(": the text up to the start offset.
DefHead == <<"d", "e", "f", " ", "f", "(">>

\* The text between the closing parenthesis and the colon.
ReturnTexts == {<<>>, <<" ", "-", ">", " ", "t">>}

\* The function body: it holds parentheses and a colon of its own.
BodyText == <<"\n", " ", "r", "(", "1", ")", ":">>

InitSig ==
    /\ OthersIdle("sig")
    /\ sigParams \in ParamLists
    /\ sigRet \in ReturnTexts
    /\ sigContent = DefHead \o Flatten(sigParams) \o <<")">> \o sigRet \o <<":">> \o BodyText
    /\ sigStart = Len(DefHead)
    /\ sigPc = "call"
    /\ sigOut = [panic |-> FALSE, end |-> 0]

\* parseWorkerFunctions calls findSignatureEnd(fileContent, match[1]).
CallFindSignatureEnd ==
    /\ sigPc = "call"
    /\ sigPc' = "done"
    /\ sigOut' = findSignatureEnd(sigContent, sigStart)
    /\ UNCHANGED <<sigParams, sigRet, sigContent, sigStart, notSig>>

NextSig == CallFindSignatureEnd

SpecSig == InitSig /\ [][NextSig]_vars

\* The offset just after the colon that follows the parenthesis closing the
\* parameter list.
SignatureEnd ==
    Len(DefHead) + Len(Flatten(sigParams)) + 1 + Len(sigRet) + 1

----------------------------------------------------------------------------
(***************************************************************************)
(* parseWorkerFunctions: the decorator pattern and the detected functions  *)
(***************************************************************************)

\* min(match[1]+500, len(fileContent)): the length of the fallback signature.
FallbackLen == 500

\* \s of the pattern
ReSpace(c) == c \in {" ", "\t", "\n", "\r", "\f"}

Digits == <<"0", "1", "2", "3", "4", "5", "6", "7", "8", "9">>

\* \w of the pattern
ReWord(c) ==
    \/ \E i \in 1..26 : c = LowerLetters[i] \/ c = UpperLetters[i]
    \/ \E i \in 1..10 : c = Digits[i]
    \/ c = "_"

RECURSIVE SkipSpace(_, _)
\* The offset after the longest run of \s that starts at offset i.
SkipSpace(content, i) ==
    IF i < Len(content) /\ ReSpace(At(content, i)) THEN SkipSpace(content, i + 1) ELSE i

RECURSIVE SkipWord(_, _)
\* The offset after the longest run of \w that starts at offset i.
SkipWord(content, i) ==
    IF i < Len(content) /\ ReWord(At(content, i)) THEN SkipWord(content, i + 1) ELSE i

RECURSIVE SkipToParen(_, _)
\* The offset after the longest run of [^)] that starts at offset i.
SkipToParen(content, i) ==
    IF i < Len(content) /\ At(content, i) # ")" THEN SkipToParen(content, i + 1) ELSE i

DecoratorText == <<"@", "w", "o", "r", "k", "e", "r", "_", "f", "u", "n", "c", "t", "i", "o", "n">>

DefText == <<"d", "e", "f">>

NoMatch == [ok |-> FALSE, start |-> 0, end |-> 0, nameStart |-> 0, nameEnd |-> 0]

\* The match of @worker_function\s*\([^)]*\)\s*\n\s*def\s+(\w+)\s*\( that
\* starts at offset p, if there is one.  No part of the pattern can match
\* the character that follows its run, so every run is taken whole.
MatchAt(content, p) ==
    LET n == Len(content)
        a == SkipSpace(content, p + Len(DecoratorText))
        b == SkipToParen(content, a + 1)
        c == SkipSpace(content, b + 1)
        d == SkipSpace(content, c + 3)
        e == SkipWord(content, d)
        f == SkipSpace(content, e)
    IN  IF /\ p + Len(DecoratorText) <= n
           /\ Slice(content, p, p + Len(DecoratorText)) = DecoratorText
           /\ a < n /\ At(content, a) = "("
           /\ b < n
           /\ \E k \in (b + 1)..(c - 1) : At(content, k) = "\n"
           /\ c + 3 <= n /\ Slice(content, c, c + 3) = DefText
           /\ d > c + 3
           /\ e > d
           /\ f < n /\ At(content, f) = "("
        THEN [ok |-> TRUE, start |-> p, end |-> f + 1, nameStart |-> d, nameEnd |-> e]
        ELSE NoMatch

RECURSIVE FindAll(_, _)
\* decoratorPattern.FindAllStringSubmatchIndex(fileContent, -1): the leftmost
\* matches that do not overlap, from offset `from` on.
FindAll(content, from) ==
    IF from >= Len(content) THEN <<>>
    ELSE LET m == MatchAt(content, from)
         IN  IF m.ok THEN <<m>> \o FindAll(content, m.end)
             ELSE FindAll(content, from + 1)

\* strings.Contains
Contains(s, sub) ==
    \E i \in 0..(Len(s) - Len(sub)) : Slice(s, i, i + Len(sub)) = sub

gpuIndicators ==
    <<<<"m", "o", "d", "e", "l", "r", "e", "f">>,
      <<"t", "o", "r", "c", "h">>,
      <<"c", "u", "d", "a">>,
      <<"g", "p", "u">>,
      <<"a", "u", "t", "o", "p", "i", "p", "e", "l", "i", "n", "e", "f", "o", "r">>,
      <<"s", "t", "a", "b", "l", "e", "d", "i", "f", "f", "u", "s", "i", "o", "n">>,
      <<"p", "i", "p", "e", "l", "i", "n", "e">>,
      <<"a", "n", "n", "o", "t", "a", "t", "e", "d", "[">>>>

\* detectGPURequirementFromSignature
detectGPURequirementFromSignature(signature) ==
    LET lowerSig == ToLower(signature)
    IN  \E i \in 1..Len(gpuIndicators) : Contains(lowerSig, gpuIndicators[i])

Min(a, b) == IF a < b THEN a ELSE b

RECURSIVE FunctionsOfMatches(_, _)
\* for _, match := range matches { ... }: the functions appended, or the
\* panic of findSignatureEnd.
FunctionsOfMatches(content, matches) ==
    IF matches = <<>> THEN [panic |-> FALSE, functions |-> <<>>]
    ELSE LET match == Head(matches)
             funcName == Slice(content, match.nameStart, match.nameEnd)
             found == findSignatureEnd(content, match.end)
             sigEnd == IF found.end = -1
                       THEN Min(match.end + FallbackLen, Len(content))
                       ELSE found.end
             signature == Slice(content, match.start, sigEnd)
             rest == FunctionsOfMatches(content, Tail(matches))
         IN  IF found.panic \/ rest.panic THEN [panic |-> TRUE, functions |-> <<>>]
             ELSE [panic |-> FALSE,
                   functions |-> <<[Name |-> funcName,
                                    RequiresGPU |-> detectGPURequirementFromSignature(signature)]>>
                                 \o rest.functions]

\* parseWorkerFunctions, on the file read: a file that cannot be read is an
\* error.
parseWorkerFunctions(file) ==
    IF ~file.readable THEN [panic |-> FALSE, err |-> TRUE, functions |-> <<>>]
    ELSE LET r == FunctionsOfMatches(file.content, FindAll(file.content, 0))
         IN  [panic |-> r.panic, err |-> FALSE, functions |-> r.functions]

----------------------------------------------------------------------------
(***************************************************************************)
(* DetectWorkerFunctions: the walk over the project directory              *)
(*                                                                         *)
(* A directory tree is a node [name, dir, symlink, children, content,       *)
(* readable]; children are listed in the order of filepath.Walk (sorted by *)
(* name).  A path is the sequence of the names from the project directory  *)
(* down.                                                                   *)
(***************************************************************************)

FileNode(name, content, readable) ==
    [name |-> name, dir |-> FALSE, symlink |-> FALSE, children |-> <<>>,
     content |-> content, readable |-> readable]

DirNode(name, children) ==
    [name |-> name, dir |-> TRUE, symlink |-> FALSE, children |-> children,
     content |-> <<>>, readable |-> TRUE]

\* The characters of the names of the model, in byte order.
ByteOrder == <<"*", "-", ".">> \o Digits \o UpperLetters \o <<"_">> \o LowerLetters

ByteRank(c) == CHOOSE i \in 1..Len(ByteOrder) : ByteOrder[i] = c

RECURSIVE NameLess(_, _)
\* a < b as Go compares strings: the order in which Walk visits a directory.
NameLess(a, b) ==
    IF a = <<>> THEN b # <<>>
    ELSE IF b = <<>> THEN FALSE
    ELSE IF Head(a) = Head(b) THEN NameLess(Tail(a), Tail(b))
    ELSE ByteRank(Head(a)) < ByteRank(Head(b))

RECURSIVE Listing(_)
\* The entries of a directory in the order Walk visits them.
Listing(nodes) ==
    IF nodes = {} THEN <<>>
    ELSE LET first == CHOOSE x \in nodes : \A y \in nodes \ {x} : NameLess(x.name, y.name)
         IN  <<first>> \o Listing(nodes \ {first})

skipDirs ==
    {<<".", "g", "i", "t">>,
     <<".", "v", "e", "n", "v">>,
     <<"v", "e", "n", "v">>,
     <<"_", "_", "p", "y", "c", "a", "c", "h", "e", "_", "_">>,
     <<".", "p", "y", "t", "e", "s", "t", "_", "c", "a", "c", "h", "e">>,
     <<"n", "o", "d", "e", "_", "m", "o", "d", "u", "l", "e", "s">>,
     <<".", "t", "o", "x">>,
     <<"d", "i", "s", "t">>,
     <<"b", "u", "i", "l", "d">>,
     <<"*", ".", "e", "g", "g", "-", "i", "n", "f", "o">>}

EggInfoSuffix == <<".", "e", "g", "g", "-", "i", "n", "f", "o">>

PySuffix == <<".", "p", "y">>

\* skipDirs[info.Name()] || strings.HasSuffix(info.Name(), ".egg-info"),
\* without the suffix test.
IsSkippedDir_MapOnly(name) == name \in skipDirs

\* skipDirs[info.Name()] || strings.HasSuffix(info.Name(), ".egg-info")
IsSkippedDir(name) == name \in skipDirs \/ HasSuffix(name, EggInfoSuffix)

RECURSIVE WalkPy(_, _)
RECURSIVE WalkPyChildren(_, _)
\* filepath.Walk with the callback of findPythonFiles, at the node of the
\* given path: the files appended.  A directory that returns SkipDir is not
\* read; the directory walked is subject to the callback like any other.
WalkPy(node, path) ==
    IF node.dir
    THEN IF IsSkippedDir(node.name) THEN <<>>
         ELSE WalkPyChildren(node.children, path)
    ELSE IF HasSuffix(node.name, PySuffix) THEN <<path>> ELSE <<>>

WalkPyChildren(children, path) ==
    IF children = <<>> THEN <<>>
    ELSE WalkPy(Head(children), Append(path, Head(children).name))
         \o WalkPyChildren(Tail(children), path)

\* findPythonFiles: the callback never returns an error, so neither does Walk.
findPythonFiles(root) == WalkPy(root, <<root.name>>)

RECURSIVE NodeAt(_, _)
\* The node a path names.
NodeAt(node, path) ==
    IF Len(path) = 1 THEN node
    ELSE LET child == CHOOSE i \in 1..Len(node.children) : node.children[i].name = path[2]
         IN  NodeAt(node.children[child], Tail(path))

RECURSIVE ParseFiles(_, _)
\* for _, pyFile := range pythonFiles { ... }: a file that fails is skipped.
ParseFiles(root, pythonFiles) ==
    IF pythonFiles = <<>> THEN [panic |-> FALSE, functions |-> <<>>]
    ELSE LET parsed == parseWorkerFunctions(NodeAt(root, Head(pythonFiles)))
             rest == ParseFiles(root, Tail(pythonFiles))
         IN  IF parsed.panic \/ rest.panic THEN [panic |-> TRUE, functions |-> <<>>]
             ELSE IF parsed.err THEN rest
             ELSE [panic |-> FALSE, functions |-> parsed.functions \o rest.functions]

\* DetectWorkerFunctions, with the files it scanned.
DetectWorkerFunctions(root) ==
    LET pythonFiles == findPythonFiles(root)
        r == ParseFiles(root, pythonFiles)
    IN  [panic |-> r.panic, err |-> FALSE, files |-> pythonFiles, functions |-> r.functions]

NoDetection == [panic |-> FALSE, err |-> FALSE, files |-> <<>>, functions |-> <<>>]

\* update.Run and deploy call build.DetectWorkerFunctions(projectDir).
CallDetectWorkerFunctions ==
    /\ detPc = "call"
    /\ detPc' = "done"
    /\ detOut' = DetectWorkerFunctions(detTree)
    /\ UNCHANGED <<detTree, detLines, detShape, notDet>>

NextDet == CallDetectWorkerFunctions

\* The names of the functions returned, in order.
DetectedNames == [i \in 1..Len(detOut.functions) |-> detOut.functions[i].Name]

(***************************************************************************)
(* Projects of one Python file, made of lines                              *)
(***************************************************************************)

\* The most lines the file of the project has.
MaxFileLines == 4

LineKinds == {"dec", "def_f", "def_g", "async", "other", "method", "commented"}

LineText(kind) ==
    CASE kind = "dec" -> <<"@", "w", "o", "r", "k", "e", "r", "_", "f", "u", "n", "c", "t", "i", "o", "n", "(", ")">>
      [] kind = "def_f" -> <<"d", "e", "f", " ", "f", "(", "x", ")", ":">>
      [] kind = "def_g" -> <<"d", "e", "f", " ", "g", "(", ")", ":">>
      [] kind = "async" -> <<"a", "s", "y", "n", "c", " ", "d", "e", "f", " ", "h", "(", ")", ":">>
      [] kind = "other" -> <<"@", "o", "t", "h", "e", "r">>
      [] kind = "method" -> <<" ", " ", " ", " ", "d", "e", "f", " ", "m", "(", "s", "e", "l", "f", ")", ":">>
      [] kind = "commented" -> <<"#", " ", "@", "w", "o", "r", "k", "e", "r", "_", "f", "u", "n", "c", "t", "i", "o", "n", "(", ")">>

RECURSIVE FileText(_)
\* The content of a file of the given lines.
FileText(lines) ==
    IF lines = <<>> THEN <<>>
    ELSE LineText(Head(lines)) \o <<"\n">> \o FileText(Tail(lines))

ProjectName == <<"p", "r", "o", "j">>

MainPy == <<"m", "a", "i", "n", ".", "p", "y">>

\* The project directory is empty or holds main.py with some lines.
InitParse ==
    /\ OthersIdle("det")
    /\ detShape \in {"empty", "file"}
    /\ detLines \in IF detShape = "empty" THEN {<<>>} ELSE SeqsUpTo(LineKinds, MaxFileLines)
    /\ detTree = IF detShape = "empty" THEN DirNode(ProjectName, <<>>)
                 ELSE DirNode(ProjectName, <<FileNode(MainPy, FileText(detLines), TRUE)>>)
    /\ detPc = "call"
    /\ detOut = NoDetection

SpecParse == InitParse /\ [][NextDet]_vars

\* The definitions among the line kinds, and their names.
IsDefinition(kind) == kind \in {"def_f", "def_g", "async", "method"}

DefName(kind) ==
    CASE kind = "def_f" -> <<"f">>
      [] kind = "def_g" -> <<"g">>
      [] kind = "async" -> <<"h">>
      [] kind = "method" -> <<"m">>

\* Line i is a definition under a @worker_function(...) decorator: between
\* the decorator and the definition there are only decorators and comments.
IsDecorated(lines, i) ==
    /\ IsDefinition(lines[i])
    /\ \E j \in 1..(i - 1) :
        /\ lines[j] = "dec"
        /\ \A k \in (j + 1)..(i - 1) : lines[k] \in {"dec", "other", "commented"}

\* Line i is a plain def on the line after the text of the decorator, be
\* the text a decorator or a comment.
FollowsPattern(lines, i) ==
    /\ lines[i] \in {"def_f", "def_g", "method"}
    /\ i > 1
    /\ lines[i - 1] \in {"dec", "commented"}

RECURSIVE NamesWhere(_, _, _)
\* The names of the definitions from line i on that are decorated (or, if
\* not byDecorator, that follow the pattern), in file order.
NamesWhere(lines, i, byDecorator) ==
    IF i > Len(lines) THEN <<>>
    ELSE (IF (IF byDecorator THEN IsDecorated(lines, i) ELSE FollowsPattern(lines, i))
          THEN <<DefName(lines[i])>> ELSE <<>>)
         \o NamesWhere(lines, i + 1, byDecorator)

\* C8: exactly one DetectedFunction per @worker_function(...)-decorated
\* definition of a file, in file order and with the name of its own def;
\* undecorated functions and methods are never returned; a file with no
\* decorated function yields an empty result and no error, and so does an
\* empty project directory.
C8_OnePerDecoratedDefinition ==
    detPc = "done" =>
        /\ ~detOut.panic
        /\ ~detOut.err
        /\ DetectedNames = NamesWhere(detLines, 1, TRUE)

\* What the pattern does return: one function per plain def that follows
\* the text of the decorator.
C8_OnePerPatternMatch ==
    detPc = "done" =>
        /\ ~detOut.panic
        /\ ~detOut.err
        /\ DetectedNames = NamesWhere(detLines, 1, FALSE)

(***************************************************************************)
(* Projects of nested directories with one file each                       *)
(***************************************************************************)

\* No entry in this place of the tree.
Absent == <<>>

RootNames == {ProjectName, <<"d", "i", "s", "t">>}

DirNames ==
    {<<".", "g", "i", "t">>,
     <<".", "v", "e", "n", "v">>,
     <<"v", "e", "n", "v">>,
     <<"_", "_", "p", "y", "c", "a", "c", "h", "e", "_", "_">>,
     <<".", "p", "y", "t", "e", "s", "t", "_", "c", "a", "c", "h", "e">>,
     <<"n", "o", "d", "e", "_", "m", "o", "d", "u", "l", "e", "s">>,
     <<".", "t", "o", "x">>,
     <<"d", "i", "s", "t">>,
     <<"b", "u", "i", "l", "d">>,
     <<"x", ".", "e", "g", "g", "-", "i", "n", "f", "o">>,
     <<"s", "r", "c">>,
     <<".", "c", "f", "g">>,
     <<"v", "e", "n", "v", "2">>}

FileNames == {<<"a", ".", "p", "y">>, <<"b", ".", "t", "x", "t">>}

\* A file that holds one decorated function of the given name.
WorkerFile(name, fn, readable) ==
    FileNode(name,
             LineText("dec") \o <<"\n">> \o DefText \o <<" ">> \o fn \o <<"(", ")", ":", "\n">>,
             readable)

\* The names of the functions of the files in the project directory, in
\* its subdirectory and in the subdirectory of that.
Fn0 == <<"f", "0">>

Fn1 == <<"f", "1">>

Fn2 == <<"f", "2">>

\* The tree of a shape: root/f0, root/d1/f1 and root/d1/d2/f2, each entry
\* present or not.
TreeOf(shape) ==
    LET inner == IF shape.f2 = Absent THEN {} ELSE {WorkerFile(shape.f2, Fn2, TRUE)}
        middle == (IF shape.f1 = Absent THEN {} ELSE {WorkerFile(shape.f1, Fn1, TRUE)})
                  \cup (IF shape.d2 = Absent THEN {} ELSE {DirNode(shape.d2, Listing(inner))})
        outer == (IF shape.f0 = Absent THEN {} ELSE {WorkerFile(shape.f0, Fn0, shape.readable0)})
                 \cup (IF shape.d1 = Absent THEN {} ELSE {DirNode(shape.d1, Listing(middle))})
    IN  DirNode(shape.root, Listing(outer))

Shapes ==
    {s \in [root : RootNames,
            d1 : DirNames \cup {Absent}, d2 : DirNames \cup {Absent},
            f0 : FileNames \cup {Absent}, f1 : FileNames \cup {Absent},
            f2 : FileNames \cup {Absent}, readable0 : BOOLEAN] :
        /\ s.d1 = Absent => s.d2 = Absent /\ s.f1 = Absent
        /\ s.d2 = Absent => s.f2 = Absent
        /\ s.f0 = Absent => s.readable0}

InitWalk ==
    /\ OthersIdle("det")
    /\ detShape \in Shapes
    /\ detLines = <<>>
    /\ detTree = TreeOf(detShape)
    /\ detPc = "call"
    /\ detOut = NoDetection

SpecWalk == InitWalk /\ [][NextDet]_vars

\* The directories the claim names, and the skip marker of a directory name.
ExcludedNames ==
    {<<".", "g", "i", "t">>,
     <<".", "v", "e", "n", "v">>,
     <<"v", "e", "n", "v">>,
     <<"_", "_", "p", "y", "c", "a", "c", "h", "e", "_", "_">>,
     <<".", "p", "y", "t", "e", "s", "t", "_", "c", "a", "c", "h", "e">>,
     <<"n", "o", "d", "e", "_", "m", "o", "d", "u", "l", "e", "s">>,
     <<".", "t", "o", "x">>,
     <<"d", "i", "s", "t">>,
     <<"b", "u", "i", "l", "d">>}

CarriesSkipMarker(name) ==
    Len(name) >= 9 /\ SubSeq(name, Len(name) - 8, Len(name)) = <<".", "e", "g", "g", "-", "i", "n", "f", "o">>

Excluded(name) == name \in ExcludedNames \/ CarriesSkipMarker(name)

\* The files of the shape: the function each defines, its path and the
\* directories it lies under.
PlacedFiles ==
    (IF detShape.f0 = Absent THEN {}
     ELSE {[fn |-> Fn0, name |-> detShape.f0, under |-> {detShape.root},
            path |-> <<detShape.root, detShape.f0>>]})
    \cup
    (IF detShape.f1 = Absent THEN {}
     ELSE {[fn |-> Fn1, name |-> detShape.f1, under |-> {detShape.root, detShape.d1},
            path |-> <<detShape.root, detShape.d1, detShape.f1>>]})
    \cup
    (IF detShape.f2 = Absent THEN {}
     ELSE {[fn |-> Fn2, name |-> detShape.f2,
            under |-> {detShape.root, detShape.d1, detShape.d2},
            path |-> <<detShape.root, detShape.d1, detShape.d2, detShape.f2>>]})

Returned(fn) == \E i \in 1..Len(detOut.functions) : detOut.functions[i].Name = fn

Scanned(path) == \E i \in 1..Len(detOut.files) : detOut.files[i] = path

EndsInPy(name) == Len(name) >= 3 /\ SubSeq(name, Len(name) - 2, Len(name)) = <<".", "p", "y">>

\* C9: DetectWorkerFunctions returns no function of a file that lies, at any
\* depth, under a directory named .git, .venv, venv, __pycache__,
\* .pytest_cache, node_modules, .tox, dist or build or under a directory
\* whose name carries the skip marker (.egg-info); and only .py files
\* outside those subtrees are scanned.
C9_NothingFromExcludedDirs ==
    detPc = "done" =>
        \A file \in PlacedFiles :
            (Returned(file.fn) \/ Scanned(file.path)) =>
                /\ EndsInPy(file.name)
                /\ \A d \in file.under : ~Excluded(d)

\* C9 witness: with .py files in src/ and in src/venv/, the function of
\* the first was returned and the second file was not scanned.
C9_Witness ==
    /\ detPc = "done"
    /\ detShape.root = ProjectName
    /\ detShape.d1 = <<"s", "r", "c">>
    /\ detShape.d2 = <<"v", "e", "n", "v">>
    /\ detShape.f1 = <<"a", ".", "p", "y">>
    /\ detShape.f2 = <<"a", ".", "p", "y">>
    /\ Returned(Fn1)
    /\ ~Returned(Fn2)
    /\ ~Scanned(<<detShape.root, detShape.d1, detShape.d2, detShape.f2>>)

----------------------------------------------------------------------------
(***************************************************************************)
(* CreateTarball: the walk that packs the project directory                *)
(***************************************************************************)

SymlinkNode(name) ==
    [name |-> name, dir |-> FALSE, symlink |-> TRUE, children |-> <<>>,
     content |-> <<>>, readable |-> TRUE]

\* excludedDirs without the names that do not start with a dot (a bug the
\* claims about excluded directories must detect).
excludedDirs_DotNamesOnly ==
    {<<".", "g", "i", "t">>, <<".", "v", "e", "n", "v">>, <<".", "t", "o", "x">>}

excludedDirs ==
    {<<".", "g", "i", "t">>,
     <<"_", "_", "p", "y", "c", "a", "c", "h", "e", "_", "_">>,
     <<"n", "o", "d", "e", "_", "m", "o", "d", "u", "l", "e", "s">>,
     <<".", "v", "e", "n", "v">>,
     <<"v", "e", "n", "v">>,
     <<".", "t", "o", "x">>,
     <<".", "m", "y", "p", "y", "_", "c", "a", "c", "h", "e">>,
     <<".", "p", "y", "t", "e", "s", "t", "_", "c", "a", "c", "h", "e">>,
     <<".", "r", "u", "f", "f", "_", "c", "a", "c", "h", "e">>}

excludedFiles ==
    {<<".", "e", "n", "v">>,
     <<".", "D", "S", "_", "S", "t", "o", "r", "e">>,
     <<"D", "o", "c", "k", "e", "r", "f", "i", "l", "e">>,
     <<"T", "h", "u", "m", "b", "s", ".", "d", "b">>}

PycSuffix == <<".", "p", "y", "c">>

DotDot == <<".", ".">>

\* filepath.Rel(absDir, path) of a path below the project directory; "." for
\* the project directory itself.
RelPath(path) ==
    IF Len(path) = 1 THEN <<".">> ELSE Join(Tail(path), <<"/">>)

\* strings.HasPrefix(relPath, ".."), asking for "../" (a bug the claims about
\* path traversal must detect).
HasTraversalPrefix_WithSlash(relPath) == HasPrefix(relPath, <<".", ".", "/">>)

\* strings.HasPrefix(relPath, "..")
HasTraversalPrefix(relPath) == HasPrefix(relPath, DotDot)

\* What the callback of CreateTarball does with the node of a path: "nil"
\* (skipped), "skipdir", "write" (header and content written), "open" (header
\* written, then the file could not be opened) or "traversal".
TarCallback(node, path) ==
    LET name == node.name
        relPath == RelPath(path)
    IN  IF node.symlink THEN "nil"
        ELSE IF node.dir /\ name \in excludedDirs THEN "skipdir"
        ELSE IF node.dir /\ HasPrefix(name, <<".">>) /\ Len(path) # 1 THEN "skipdir"
        ELSE IF ~node.dir /\ name \in excludedFiles THEN "nil"
        ELSE IF ~node.dir /\ HasSuffix(name, PycSuffix) THEN "nil"
        ELSE IF relPath = <<".">> THEN "nil"
        ELSE IF HasTraversalPrefix(relPath) THEN "traversal"
        ELSE IF ~node.dir /\ ~node.readable THEN "open"
        ELSE "write"

RECURSIVE TarWalk(_, _, _)
RECURSIVE TarWalkChildren(_, _, _)
\* filepath.Walk with the callback of CreateTarball, at the node of the
\* given path and with the entries written so far: the error that ended the
\* walk, if any, and the entries written.  SkipDir leaves the directory
\* unread, nil goes on into it; any other error ends the walk.
TarWalk(node, path, written) ==
    LET does == TarCallback(node, path)
        header == Append(written, RelPath(path))
        after == IF does = "write" THEN header ELSE written
    IN  IF does = "skipdir" THEN [err |-> "none", written |-> written]
        ELSE IF does = "traversal" THEN [err |-> "traversal", written |-> written]
        ELSE IF does = "open" THEN [err |-> "open", written |-> header]
        ELSE IF node.dir THEN TarWalkChildren(node.children, path, after)
        ELSE [err |-> "none", written |-> after]

TarWalkChildren(children, path, written) ==
    IF children = <<>> THEN [err |-> "none", written |-> written]
    ELSE LET first == TarWalk(Head(children), Append(path, Head(children).name), written)
         IN  IF first.err # "none" THEN first
             ELSE TarWalkChildren(Tail(children), path, first.written)

\* CreateTarball: the archive is returned only when the walk ended without
\* an error.
CreateTarball(root) ==
    LET walked == TarWalk(root, <<root.name>>, <<>>)
    IN  [err |-> walked.err,
         returned |-> walked.err = "none",
         archive |-> IF walked.err = "none" THEN walked.written ELSE <<>>,
         written |-> walked.written]

NoTarball == [err |-> "none", returned |-> FALSE, archive |-> <<>>, written |-> <<>>]

TarRootNames == {ProjectName, <<"v", "e", "n", "v">>, <<".", "p", "r", "o", "j">>}

TarEntryNames == {<<"a", ".", "p", "y">>, <<".", ".", "x">>, <<".", ".", "b", ".", "p", "y", "c">>, <<".", "e", "n", "v">>}

TarEntryKinds == {"file", "symlink", "dir"}

TarDirNames ==
    {<<"s", "r", "c">>, <<".", "h", "i", "d">>, <<".", "g", "i", "t">>,
     <<"n", "o", "d", "e", "_", "m", "o", "d", "u", "l", "e", "s">>}

TarInnerNames ==
    {<<"a", ".", "p", "y">>, <<".", ".", "x">>, <<"z", ".", "p", "y", "c">>,
     <<"D", "o", "c", "k", "e", "r", "f", "i", "l", "e">>}

\* An entry of the given name and kind.
TarEntry(name, kind) ==
    IF kind = "symlink" THEN SymlinkNode(name)
    ELSE IF kind = "dir" THEN DirNode(name, <<>>)
    ELSE FileNode(name, <<>>, kind = "file")

\* The tree of a shape: root/e0 and root/d1/e1 or root/d1/d2/e1, each
\* present or not.
TarTreeOf(shape) ==
    LET inmost == IF shape.e1 = Absent THEN {} ELSE {TarEntry(shape.e1, shape.k1)}
        inner == IF shape.d2 = Absent THEN inmost
                 ELSE {DirNode(shape.d2, Listing(inmost))}
        outer == (IF shape.e0 = Absent THEN {} ELSE {TarEntry(shape.e0, shape.k0)})
                 \cup (IF shape.d1 = Absent THEN {} ELSE {DirNode(shape.d1, Listing(inner))})
    IN  DirNode(shape.root, Listing(outer))

TarShapes ==
    {s \in [root : TarRootNames,
            e0 : TarEntryNames \cup {Absent}, k0 : TarEntryKinds,
            d1 : TarDirNames \cup {Absent}, d2 : TarDirNames \cup {Absent},
            e1 : TarInnerNames \cup {Absent}, k1 : {"file", "unreadable", "symlink"}] :
        /\ s.e0 = Absent => s.k0 = "file"
        /\ s.d1 = Absent => s.e1 = Absent /\ s.d2 = Absent
        /\ s.e1 = Absent => s.k1 = "file"}

InitTar ==
    /\ OthersIdle("tar")
    /\ tarShape \in TarShapes
    /\ tarTree = TarTreeOf(tarShape)
    /\ tarPc = "call"
    /\ tarOut = NoTarball

\* BuildProjectOnServer calls CreateTarball(projectDir).
CallCreateTarball ==
    /\ tarPc = "call"
    /\ tarPc' = "done"
    /\ tarOut' = CreateTarball(tarTree)
    /\ UNCHANGED <<tarShape, tarTree, notTar>>

NextTar == CallCreateTarball

SpecTar == InitTar /\ [][NextTar]_vars

\* The text starts with the parent-directory sequence.
StartsWithParent(text) == Len(text) >= 2 /\ text[1] = "." /\ text[2] = "."

\* The walk reaches the check of the relative path with a path that starts
\* with "..": the project directory is not itself skipped and holds a
\* regular file of such a name that no rule skips.
TraversalReached ==
    /\ tarShape.root # <<"v", "e", "n", "v">>
    /\ tarShape.e0 # Absent
    /\ tarShape.k0 = "file"
    /\ StartsWithParent(tarShape.e0)
    /\ tarShape.e0 # <<".", ".", "b", ".", "p", "y", "c">>

\* C10: CreateTarball never writes an archive entry whose relative path
\* starts with "..": when the walk reaches such a path the packaging fails
\* with the path-traversal error and no archive is returned.
C10_NoTraversalEntry ==
    tarPc = "done" =>
        /\ \A i \in 1..Len(tarOut.written) : ~StartsWithParent(tarOut.written[i])
        /\ \A i \in 1..Len(tarOut.archive) : ~StartsWithParent(tarOut.archive[i])
        /\ TraversalReached =>
            /\ ~tarOut.returned
            /\ tarOut.archive = <<>>
            /\ tarOut.err = "traversal"

\* C10 witness: a project that holds the file ..x beside src/a.py was
\* walked; packaging failed with the path-traversal error and returned no
\* archive.
C10_Witness ==
    /\ tarPc = "done"
    /\ tarShape.root = ProjectName
    /\ tarShape.e0 = <<".", ".", "x">>
    /\ tarShape.k0 = "file"
    /\ tarShape.d1 = <<"s", "r", "c">>
    /\ tarShape.e1 = <<"a", ".", "p", "y">>
    /\ tarOut.err = "traversal"
    /\ ~tarOut.returned

\* The entries of the shape with the directories each lies under (the
\* project directory aside) and its relative path.
TarPlaced ==
    LET dirs == IF tarShape.d1 = Absent THEN <<>>
                ELSE IF tarShape.d2 = Absent THEN <<tarShape.d1>>
                ELSE <<tarShape.d1, tarShape.d2>>
    IN  (IF tarShape.e0 = Absent THEN {}
         ELSE {[name |-> tarShape.e0, kind |-> tarShape.k0, under |-> <<>>]})
        \cup (IF tarShape.e1 = Absent THEN {}
              ELSE {[name |-> tarShape.e1, kind |-> tarShape.k1, under |-> dirs]})
        \cup {[name |-> dirs[i], kind |-> "dir", under |-> SubSeq(dirs, 1, i - 1)] :
                i \in 1..Len(dirs)}

\* The relative path of a placed entry, with "/" between the names.
PlacedPath(entry) == Join(Append(entry.under, entry.name), <<"/">>)

ExcludedDirNames ==
    {<<".", "g", "i", "t">>,
     <<"_", "_", "p", "y", "c", "a", "c", "h", "e", "_", "_">>,
     <<"n", "o", "d", "e", "_", "m", "o", "d", "u", "l", "e", "s">>,
     <<".", "v", "e", "n", "v">>,
     <<"v", "e", "n", "v">>,
     <<".", "t", "o", "x">>,
     <<".", "m", "y", "p", "y", "_", "c", "a", "c", "h", "e">>,
     <<".", "p", "y", "t", "e", "s", "t", "_", "c", "a", "c", "h", "e">>,
     <<".", "r", "u", "f", "f", "_", "c", "a", "c", "h", "e">>}

ExcludedFileNames ==
    {<<".", "e", "n", "v">>,
     <<".", "D", "S", "_", "S", "t", "o", "r", "e">>,
     <<"D", "o", "c", "k", "e", "r", "f", "i", "l", "e">>,
     <<"T", "h", "u", "m", "b", "s", ".", "d", "b">>}

IsHiddenName(name) == Len(name) >= 1 /\ name[1] = "."

EndsInPyc(name) ==
    Len(name) >= 4 /\ SubSeq(name, Len(name) - 3, Len(name)) = <<".", "p", "y", "c">>

\* The entry is one the archive must not hold.
MustBeLeftOut(entry) ==
    \/ entry.kind = "symlink"
    \/ \E i \in 1..Len(entry.under) :
        entry.under[i] \in ExcludedDirNames \/ IsHiddenName(entry.under[i])
    \/ entry.kind = "dir" /\ (entry.name \in ExcludedDirNames \/ IsHiddenName(entry.name))
    \/ entry.kind # "dir" /\ (entry.name \in ExcludedFileNames \/ EndsInPyc(entry.name))

InArchive(path) ==
    \/ \E i \in 1..Len(tarOut.archive) : tarOut.archive[i] = path
    \/ \E i \in 1..Len(tarOut.written) : tarOut.written[i] = path

\* C11: no entry of the archive is a symlink, lies under a directory with an
\* excluded name or under a hidden directory other than the root, has an
\* excluded file name or ends in .pyc; a .git directory is left out with
\* all its files.
C11_ExcludedEntriesLeftOut ==
    tarPc = "done" =>
        \A entry \in TarPlaced : MustBeLeftOut(entry) => ~InArchive(PlacedPath(entry))

\* C11 witness: a project with a.py beside .git/a.py was packed, and the
\* archive holds a.py alone.
C11_Witness ==
    /\ tarPc = "done"
    /\ tarShape.root = ProjectName
    /\ tarShape.e0 = <<"a", ".", "p", "y">> /\ tarShape.k0 = "file"
    /\ tarShape.d1 = <<".", "g", "i", "t">> /\ tarShape.d2 = Absent
    /\ tarShape.e1 = <<"a", ".", "p", "y">> /\ tarShape.k1 = "file"
    /\ tarOut.returned
    /\ tarOut.archive = <<<<"a", ".", "p", "y">>>>

----------------------------------------------------------------------------
(***************************************************************************)
(* The orchestrator client: CreateDeployment, UpdateDeployment and         *)
(* GetDeployment, each against the answer the server gives                 *)
(***************************************************************************)

DeploymentIds == {"app", "svc-2"}

\* The answers of the model: the request fails in transport, or a status
\* arrives and the body is read or fails to be read.  A body is empty, not
\* JSON, an ErrorResponse with a message, a deployment record or "{}".
ApiBodies == {"empty", "garbage", "message", "deployment", "object"}

ApiResponses ==
    {r \in [transport : BOOLEAN, status : {200, 201, 404, 409, 500},
            read : BOOLEAN, body : ApiBodies] :
        /\ ~r.transport => r.status = 200 /\ r.read
        /\ ~r.read => r.body = "empty"}

\* %d of a status
StatusText(status) ==
    CASE status = 200 -> "200"
      [] status = 201 -> "201"
      [] status = 404 -> "404"
      [] status = 409 -> "409"
      [] status = 500 -> "500"

\* string(respBody)
RespBodyText(body) ==
    CASE body = "empty" -> ""
      [] body = "garbage" -> "<html>"
      [] body = "message" -> "{\"error\":\"e\",\"message\":\"no\"}"
      [] body = "deployment" -> "{\"id\":\"app\",\"image_url\":\"img:1\"}"
      [] body = "object" -> "{}"

\* json.Unmarshal(respBody, &v) == nil
IsJSONObject(body) == body \in {"message", "deployment", "object"}

\* errResp.Message after json.Unmarshal(respBody, &errResp)
MessageOf(body) == IF body = "message" THEN "no" ELSE ""

\* deployment after json.Unmarshal(respBody, &deployment): the fields the
\* body does not hold keep their zero values.
DeploymentOf(body) ==
    IF body = "deployment" THEN [ID |-> "app", ImageURL |-> "img:1"]
    ELSE [ID |-> "", ImageURL |-> ""]

NoDeployment == [ID |-> "", ImageURL |-> ""]

ApiErr(text) == [ok |-> FALSE, found |-> FALSE, err |-> text, deployment |-> NoDeployment]

ApiRecord(d) == [ok |-> TRUE, found |-> TRUE, err |-> "", deployment |-> d]

\* return nil, nil
ApiNothing == [ok |-> TRUE, found |-> FALSE, err |-> "", deployment |-> NoDeployment]

\* The part the three methods share, from the status check for any other
\* status on: the statuses in `fine` are a success.
ApiErrorOrRecord(resp, fine) ==
    IF resp.status \notin fine
    THEN IF IsJSONObject(resp.body) /\ MessageOf(resp.body) # ""
         THEN ApiErr("API error (" \o StatusText(resp.status) \o "): " \o MessageOf(resp.body))
         ELSE ApiErr("API error (" \o StatusText(resp.status) \o "): " \o RespBodyText(resp.body))
    ELSE IF ~IsJSONObject(resp.body) THEN ApiErr("failed to parse response")
    ELSE ApiRecord(DeploymentOf(resp.body))

\* resp.StatusCode == http.StatusConflict, never true (a bug the claims
\* about the conflict answer must detect).
IsConflict_Never(resp) == FALSE

\* resp.StatusCode == http.StatusConflict
IsConflict(resp) == resp.status = 409

\* resp.StatusCode == http.StatusNotFound, never true (a bug the claims
\* about the not-found answer must detect).
IsNotFound_Never(resp) == FALSE

\* resp.StatusCode == http.StatusNotFound
IsNotFound(resp) == resp.status = 404

\* Client.CreateDeployment
CreateDeployment(id, resp) ==
    IF ~resp.transport THEN ApiErr("request failed")
    ELSE IF ~resp.read THEN ApiErr("failed to read response")
    ELSE IF IsConflict(resp)
    THEN ApiErr("deployment '" \o id \o "' already exists (use 'cozyctl update' to update)")
    ELSE ApiErrorOrRecord(resp, {201, 200})

\* Client.UpdateDeployment
UpdateDeployment(id, resp) ==
    IF ~resp.transport THEN ApiErr("request failed")
    ELSE IF ~resp.read THEN ApiErr("failed to read response")
    ELSE IF IsNotFound(resp)
    THEN ApiErr("deployment '" \o id \o "' not found (use 'cozyctl deploy' to create)")
    ELSE ApiErrorOrRecord(resp, {200})

\* Client.GetDeployment
GetDeployment(id, resp) ==
    IF ~resp.transport THEN ApiErr("request failed")
    ELSE IF ~resp.read THEN ApiErr("failed to read response")
    ELSE IF IsNotFound(resp) THEN ApiNothing
    ELSE ApiErrorOrRecord(resp, {200})

InitApi ==
    /\ OthersIdle("api")
    /\ apiId \in DeploymentIds
    /\ apiResp \in ApiResponses
    /\ apiOp = "none"
    /\ apiSent = <<>>
    /\ apiPc = "call"
    /\ apiOut = ApiNothing

\* A call of the method: one request is sent and the answer handled.
ApiCall(op, method, path, out) ==
    /\ apiPc = "call"
    /\ apiPc' = "done"
    /\ apiOp' = op
    /\ apiSent' = Append(apiSent, [method |-> method, path |-> path])
    /\ apiOut' = out
    /\ UNCHANGED <<apiId, apiResp, notApi>>

CallCreateDeployment ==
    ApiCall("create", "POST", "/v1/deployments", CreateDeployment(apiId, apiResp))

CallUpdateDeployment ==
    ApiCall("update", "PUT", "/v1/deployments/" \o apiId, UpdateDeployment(apiId, apiResp))

CallGetDeployment ==
    ApiCall("get", "GET", "/v1/deployments/" \o apiId, GetDeployment(apiId, apiResp))

NextApi ==
    \/ CallCreateDeployment
    \/ CallUpdateDeployment
    \/ CallGetDeployment

SpecApi == InitApi /\ [][NextApi]_vars

\* The method was answered: the request went through and the answer was
\* read to its end.
Answered(op, status) ==
    /\ apiPc = "done"
    /\ apiOp = op
    /\ apiResp.transport
    /\ apiResp.read
    /\ apiResp.status = status

\* C12: CreateDeployment answered with 409 returns the already-exists error
\* that names the deployment ID and points to the update command, never a
\* generic API error and never a deployment record, whatever the body.
C12_ConflictIsAlreadyExists ==
    Answered("create", 409) =>
        /\ ~apiOut.ok
        /\ ~apiOut.found
        /\ apiOut.deployment = NoDeployment
        /\ apiOut.err = "deployment '" \o apiId \o "' already exists (use 'cozyctl update' to update)"
        /\ apiOut.err # "API error (409): " \o RespBodyText(apiResp.body)
        /\ apiOut.err # "API error (409): " \o MessageOf(apiResp.body)

\* C12 witness: a create answered with 409 and a body that is a deployment
\* record returned the already-exists error.
C12_Witness ==
    /\ Answered("create", 409)
    /\ apiResp.body = "deployment"
    /\ apiId = "app"
    /\ apiOut.err = "deployment 'app' already exists (use 'cozyctl update' to update)"

\* C13: UpdateDeployment answered with 404 returns the not-found error that
\* names the deployment ID and points to the deploy command, never a generic
\* API error and never a deployment record; the update does not succeed and
\* sends no request that creates the deployment.
C13_NotFoundIsNotFound ==
    Answered("update", 404) =>
        /\ ~apiOut.ok
        /\ ~apiOut.found
        /\ apiOut.deployment = NoDeployment
        /\ apiOut.err = "deployment '" \o apiId \o "' not found (use 'cozyctl deploy' to create)"
        /\ apiOut.err # "API error (404): " \o RespBodyText(apiResp.body)
        /\ apiOut.err # "API error (404): " \o MessageOf(apiResp.body)
        /\ \A i \in 1..Len(apiSent) : apiSent[i].method # "POST"

\* C13 witness: an update answered with 404 and an error message returned
\* the not-found error.
C13_Witness ==
    /\ Answered("update", 404)
    /\ apiResp.body = "message"
    /\ apiId = "svc-2"
    /\ apiOut.err = "deployment 'svc-2' not found (use 'cozyctl deploy' to create)"

\* ---------------------------------------------------------------------
\* DockerBuilder.Build (internal/build/docker.go): docker build run as a
\* subprocess bound to a deadline context.
\* ---------------------------------------------------------------------

\* The most chunks of output the subprocess writes.
MaxOutput == 2

\* The tags GenerateImageTag produces: "cozy-build-" and the build ID, with
\* the deployment ID in between when there is one.
ImageTags == {"cozy-build-app-1a2b3c4d", "cozy-build-1a2b3c4d"}

\* A chunk of output is known by the pipe it was written to.
Streams == {"out", "err"}

\* result := &BuildResult{ImageTag: imageTag}; buildCtx is not yet created.
InitDk ==
    /\ OthersIdle("dk")
    /\ dkTag \in ImageTags
    /\ dkPc = "start"
    /\ dkCtx = "live"
    /\ dkProc = "none"
    /\ dkPiped = <<>>
    /\ dkStdout = <<>>
    /\ dkErr = FALSE
    /\ dkResult = [ImageTag |-> dkTag, Logs |-> <<>>, Error |-> "none"]

\* The deadline of context.WithTimeout passes: buildCtx.Err() becomes
\* DeadlineExceeded, and exec kills the subprocess if it is still running.
\* It can pass at any moment up to the check of buildCtx.Err().
DkDeadline ==
    /\ dkPc \in {"start", "running", "check"}
    /\ dkCtx = "live"
    /\ dkCtx' = "deadline"
    /\ dkProc' = IF dkProc = "running" THEN "killed" ELSE dkProc
    /\ UNCHANGED <<dkTag, dkPc, dkPiped, dkStdout, dkErr, dkResult, notDk>>

\* The caller's context is cancelled: buildCtx.Err() becomes Canceled, and
\* exec kills the subprocess if it is still running.
DkCancel ==
    /\ dkPc \in {"start", "running", "check"}
    /\ dkCtx = "live"
    /\ dkCtx' = "canceled"
    /\ dkProc' = IF dkProc = "running" THEN "killed" ELSE dkProc
    /\ UNCHANGED <<dkTag, dkPc, dkPiped, dkStdout, dkErr, dkResult, notDk>>

\* cmd.Run, first half (cmd.Start): with the context already done nothing is
\* started and Run returns the context's error; otherwise the subprocess
\* starts, or fails to (docker is not installed) and Run returns that error.
DkStart ==
    /\ dkPc = "start"
    /\ \E started \in (IF dkCtx # "live" THEN {FALSE} ELSE BOOLEAN) :
         IF started
         THEN /\ dkPc' = "running"
              /\ dkProc' = "running"
              /\ UNCHANGED <<dkErr, dkResult>>
         ELSE /\ dkPc' = "check"
              /\ dkErr' = TRUE
              /\ dkResult' = [dkResult EXCEPT !.Logs = dkStdout]
              /\ dkProc' = dkProc
    /\ UNCHANGED <<dkTag, dkCtx, dkPiped, dkStdout, notDk>>

\* The subprocess writes a chunk to one of its pipes and the goroutine of
\* that pipe copies it into the stdout buffer (cmd.Stdout = &stdout;
\* cmd.Stderr = io.MultiWriter(&stderr, &stdout)).
DkWrite ==
    /\ dkPc = "running"
    /\ dkProc = "running"
    /\ Len(dkPiped) < MaxOutput
    /\ \E s \in Streams :
         /\ dkPiped' = Append(dkPiped, s)
         /\ dkStdout' = Append(dkStdout, s)
    /\ UNCHANGED <<dkTag, dkPc, dkCtx, dkProc, dkErr, dkResult, notDk>>

\* What the stdout buffer may hold after the two copying goroutines wrote
\* to it at the same time: bytes.Buffer is not safe for concurrent use, so
\* the two chunks land in either order, or one overwrites the other.
RacingOutcomes(buf) ==
    {buf \o <<"out", "err">>, buf \o <<"err", "out">>,
     buf \o <<"out">>, buf \o <<"err">>}

\* The subprocess writes to both pipes at once: the two goroutines race on
\* the stdout buffer.
DkRacingWrites ==
    /\ dkPc = "running"
    /\ dkProc = "running"
    /\ Len(dkPiped) + 2 <= MaxOutput
    /\ dkPiped' = dkPiped \o <<"out", "err">>
    /\ dkStdout' \in RacingOutcomes(dkStdout)
    /\ UNCHANGED <<dkTag, dkPc, dkCtx, dkProc, dkErr, dkResult, notDk>>

\* The subprocess ends on its own, with exit status 0 or not.
DkExit ==
    /\ dkPc = "running"
    /\ dkProc = "running"
    /\ dkProc' \in {"exit0", "exit1"}
    /\ UNCHANGED <<dkTag, dkPc, dkCtx, dkPiped, dkStdout, dkErr, dkResult, notDk>>

\* The errors cmd.Run may return once the subprocess has ended: an error
\* for a subprocess that was killed or exited with a non-zero status; for
\* one that exited with status 0, nil, or the context's error when the
\* context was done before the subprocess was reaped.
RunErrors ==
    IF dkProc = "exit0"
    THEN IF dkCtx = "live" THEN {FALSE} ELSE BOOLEAN
    ELSE {TRUE}

\* err := cmd.Run() returns; result.Duration = ...;
\* result.Logs = stdout.String()
DkRunReturns ==
    /\ dkPc = "running"
    /\ dkProc \in {"exit0", "exit1", "killed"}
    /\ dkErr' \in RunErrors
    /\ dkResult' = [dkResult EXCEPT !.Logs = dkStdout]
    /\ dkPc' = "check"
    /\ UNCHANGED <<dkTag, dkCtx, dkProc, dkPiped, dkStdout, notDk>>

\* if buildCtx.Err() == context.DeadlineExceeded { "build timed out after" }
\* if err != nil { "docker build failed" }
BuildError ==
    IF dkCtx = "deadline" THEN "timeout"
    ELSE IF dkErr THEN "failed"
    ELSE "none"

\* The two checks after Run, and the return of the result.
DkCheck ==
    /\ dkPc = "check"
    /\ dkResult' = [dkResult EXCEPT !.Error = BuildError]
    /\ dkPc' = "done"
    /\ UNCHANGED <<dkTag, dkCtx, dkProc, dkPiped, dkStdout, dkErr, notDk>>

NextDk ==
    \/ DkDeadline
    \/ DkCancel
    \/ DkStart
    \/ DkWrite
    \/ DkRacingWrites
    \/ DkExit
    \/ DkRunReturns
    \/ DkCheck

SpecDocker == InitDk /\ [][NextDk]_vars

\* The subprocess ended with an error: it could not be started, it exited
\* with a non-zero status, or it was killed.
SubprocessFailed == dkProc \in {"none", "exit1", "killed"}

\* C15: once Build has returned, its error is the timeout error exactly
\* when the deadline expired, and the build-failed error exactly when the
\* subprocess ended with an error and the deadline did not expire; a build
\* whose subprocess succeeded carries neither error; and the logs of the
\* result are the output captured in the stdout buffer.
C15_TimeoutFailureSuccessApart ==
    dkPc = "done" =>
        /\ (dkResult.Error = "timeout") <=> (dkCtx = "deadline")
        /\ (dkResult.Error = "failed") <=>
               (SubprocessFailed /\ dkCtx # "deadline")
        /\ (dkProc = "exit0") => (dkResult.Error = "none")
        /\ dkResult.Logs = dkStdout

\* What does hold of Build: the timeout error is reported exactly when the
\* deadline had expired by the time of the check, the build-failed error
\* exactly when Run returned an error and the deadline had not expired, and
\* the logs are the buffered output in each outcome.
C15_ErrorFollowsContextThenRun ==
    dkPc = "done" =>
        /\ (dkResult.Error = "timeout") <=> (dkCtx = "deadline")
        /\ (dkResult.Error = "failed") <=> (dkErr /\ dkCtx # "deadline")
        /\ dkResult.Logs = dkStdout

\* A build whose subprocess exited with status 0 and was reported as timed
\* out: the deadline passed between the exit and the check.
C15_SucceededReportedAsTimeout ==
    /\ dkPc = "done"
    /\ dkProc = "exit0"
    /\ dkResult.Error = "timeout"
    /\ Len(dkResult.Logs) > 0

\* ---------------------------------------------------------------------
\* The image reference of a successful build.
\* ---------------------------------------------------------------------

\* The status record of the last query of the polling loop.
LastStatusRecord == pollTrace[Len(pollTrace)].resp

\* C16: a build reported as successful has one non-empty image reference;
\* for the remote build: when the polling loop returns success, the status
\* record it returns on carries an image tag.
C16_SuccessCarriesImageTag ==
    pollResult = "Success" =>
        /\ Len(pollTrace) > 0
        /\ pollTrace[Len(pollTrace)].ev = "query"
        /\ LastStatusRecord.status = "success"
        /\ LastStatusRecord.imageTag # ""

\* The polling loop has returned success on a status record "success" that
\* carries no image tag.
C16_SuccessWithoutImageTag ==
    /\ pollPc = "done"
    /\ pollResult = "Success"
    /\ LastStatusRecord.status = "success"
    /\ LastStatusRecord.imageTag = ""

\* The local half of C16, which holds: a result of DockerBuilder.Build with
\* no error carries the tag the build was asked for, and that tag is not
\* empty.
C16_LocalResultCarriesTag ==
    (dkPc = "done" /\ dkResult.Error = "none") =>
        /\ dkResult.ImageTag = dkTag
        /\ dkResult.ImageTag # ""


\* ---------------------------------------------------------------------
\* The profile store (internal/config/config.go) and cozyctl delete
\* (cmd/profiles): profiles are directories ~/.cozy/<name>/<profile>, the
\* current pointer is the file ~/.cozy/default/config.yaml.
\* ---------------------------------------------------------------------

DefaultText == <<"d", "e", "f", "a", "u", "l", "t">>

BriheetText == <<"b", "r", "i", "h", "e", "e", "t">>

DevText == <<"d", "e", "v">>

StagingText == <<"s", "t", "a", "g", "i", "n", "g">>

ConfigYaml == <<"c", "o", "n", "f", "i", "g", ".", "y", "a", "m", "l">>

Dot == <<".">>

\* The values of --name and of --profile the command is run with: not
\* given, plain names, and spellings with a trailing separator or a dot.
NameFlags == {<<>>, DefaultText, BriheetText, DefaultText \o <<"/">>, Dot}

ProfileFlags ==
    {<<>>, DefaultText, DevText, DevText \o <<"/">>, DefaultText \o <<"/">>,
     Dot, ConfigYaml}

RECURSIVE CleanParts(_, _)
\* filepath.Clean on the parts of a path: empty parts and "." are dropped,
\* ".." drops the part before it (and stays when there is none).
CleanParts(done, parts) ==
    IF parts = <<>> THEN done
    ELSE LET p == Head(parts)
             rest == Tail(parts)
         IN  IF p = <<>> \/ p = Dot THEN CleanParts(done, rest)
             ELSE IF p = DotDot
                  THEN IF done # <<>> /\ done[Len(done)] # DotDot
                       THEN CleanParts(SubSeq(done, 1, Len(done) - 1), rest)
                       ELSE CleanParts(Append(done, p), rest)
                  ELSE CleanParts(Append(done, p), rest)

\* filepath.Join(base, name, profile), as a path below base: the elements
\* are joined with separators and the result is cleaned.
ProfileDir(name, profile) ==
    CleanParts(<<>>, Split(name, "/") \o Split(profile, "/"))

\* filepath.Join(dir, "config.yaml")
ProfileConfigPath(name, profile) ==
    Append(ProfileDir(name, profile), ConfigYaml)

\* ~/.cozy/default/config.yaml
DefaultConfigPath == <<DefaultText, ConfigYaml>>

\* os.Stat(path) finds something: a file, or a directory holding files.
PathExists(files, path) ==
    \E f \in files : Len(f) >= Len(path) /\ SubSeq(f, 1, Len(path)) = path

\* What os.RemoveAll(path) leaves.
RemoveAll(files, path) ==
    {f \in files : ~(Len(f) >= Len(path) /\ SubSeq(f, 1, Len(path)) = path)}

DefaultPointer == [CurrentName |-> DefaultText, CurrentProfile |-> DefaultText]

\* The profiles a store may hold.
StoredProfiles ==
    {<<DefaultText, DefaultText>>, <<BriheetText, DevText>>,
     <<BriheetText, StagingText>>}

\* What the pointer file may hold: a profile, or empty values.
StoredPointers ==
    {[CurrentName |-> p[1], CurrentProfile |-> p[2]] : p \in StoredProfiles}
    \cup {[CurrentName |-> <<>>, CurrentProfile |-> <<>>]}

\* GetDefaultConfig's answer for a pointer file that was read: empty values
\* are read as "default".
WithDefaults(ptr) ==
    [CurrentName |-> IF ptr.CurrentName = <<>> THEN DefaultText
                     ELSE ptr.CurrentName,
     CurrentProfile |-> IF ptr.CurrentProfile = <<>> THEN DefaultText
                        ELSE ptr.CurrentProfile]

\* The profile the store points to: what GetDefaultConfig answers.
CurrentOf(files, ptr) ==
    IF DefaultConfigPath \in files THEN WithDefaults(ptr) ELSE DefaultPointer

InitCfg ==
    /\ OthersIdle("cfg")
    /\ \E profiles \in SUBSET StoredProfiles, pointed \in BOOLEAN :
         cfgFiles = {ProfileConfigPath(p[1], p[2]) : p \in profiles}
                    \cup (IF pointed THEN {DefaultConfigPath} ELSE {})
    /\ cfgPointer \in StoredPointers
    /\ (DefaultConfigPath \notin cfgFiles) => (cfgPointer = DefaultPointer)
    /\ cfgName \in NameFlags
    /\ cfgProfile \in ProfileFlags
    /\ cfgBefore = [files |-> cfgFiles, pointer |-> cfgPointer]
    /\ cfgPc = "call"
    /\ cfgOut = "none"

\* if name == "default" && profile == "default"
IsDefaultDefault(name, profile) ==
    name = DefaultText /\ profile = DefaultText

\* config.DeleteProfile: the error it returns and the files it leaves.
DeleteProfile(files, name, profile, removed) ==
    IF IsDefaultDefault(name, profile)
    THEN [err |-> "cannot delete default/default profile", files |-> files]
    ELSE IF ~PathExists(files, ProfileDir(name, profile))
    THEN [err |-> "profile does not exist", files |-> files]
    ELSE IF ~removed
    THEN [err |-> "failed to delete profile", files |-> files]
    ELSE [err |-> "none", files |-> RemoveAll(files, ProfileDir(name, profile))]

\* config.SaveDefaultConfig: the pointer file is written, unless the write
\* fails.
SaveDefaultConfig(files, ptr, name, profile, saved) ==
    IF saved
    THEN [err |-> "none", files |-> files \cup {DefaultConfigPath},
          pointer |-> [CurrentName |-> name, CurrentProfile |-> profile]]
    ELSE [err |-> "failed to write default config", files |-> files,
          pointer |-> ptr]

\* config.GetDefaultConfig: a missing pointer file is created pointing to
\* default/default; an existing one is read, unless the read fails.
GetDefaultConfig(files, ptr, read, saved) ==
    IF DefaultConfigPath \notin files
    THEN LET s == SaveDefaultConfig(files, ptr, DefaultText, DefaultText, saved)
         IN  [err |-> IF s.err = "none" THEN "none"
                      ELSE "failed to create default config",
              cfg |-> DefaultPointer, files |-> s.files, pointer |-> s.pointer]
    ELSE IF ~read
    THEN [err |-> "failed to read default config", cfg |-> DefaultPointer,
          files |-> files, pointer |-> ptr]
    ELSE [err |-> "none", cfg |-> WithDefaults(ptr),
          files |-> files, pointer |-> ptr]

\* defaultCfg.CurrentName == deleteName &&
\* defaultCfg.CurrentProfile == deleteProfile
IsCurrent(cfg, name, profile) ==
    cfg.CurrentName = name /\ cfg.CurrentProfile = profile

\* The RunE of cozyctl delete: the files, the pointer and the error it
\* leaves, for each outcome of its file operations.
RunDelete(files, ptr, name, profile, removed, read, saved, switched) ==
    IF name = <<>> \/ profile = <<>>
    THEN [err |-> "both --name and --profile flags are required",
          files |-> files, pointer |-> ptr]
    ELSE LET d == DeleteProfile(files, name, profile, removed)
         IN  IF d.err # "none"
             THEN [err |-> d.err, files |-> files, pointer |-> ptr]
             ELSE LET g == GetDefaultConfig(d.files, ptr, read, saved)
                  IN  IF g.err # "none"
                      THEN [err |-> g.err, files |-> g.files,
                            pointer |-> g.pointer]
                      ELSE IF IsCurrent(g.cfg, name, profile)
                      THEN LET s == SaveDefaultConfig(g.files, g.pointer,
                                        DefaultText, DefaultText, switched)
                           IN  [err |-> IF s.err = "none" THEN "none"
                                        ELSE "failed to switch to default profile",
                                files |-> s.files, pointer |-> s.pointer]
                      ELSE [err |-> "none", files |-> g.files,
                            pointer |-> g.pointer]

CallDelete ==
    /\ cfgPc = "call"
    /\ \E removed, read, saved, switched \in BOOLEAN :
         LET r == RunDelete(cfgFiles, cfgPointer, cfgName, cfgProfile,
                            removed, read, saved, switched)
         IN  /\ cfgFiles' = r.files
             /\ cfgPointer' = r.pointer
             /\ cfgOut' = r.err
    /\ cfgPc' = "done"
    /\ UNCHANGED <<cfgName, cfgProfile, cfgBefore, notCfg>>

NextCfg == CallDelete

SpecCfg == InitCfg /\ [][NextCfg]_vars

\* The directory of default/default, and the directory the command was
\* asked to delete.
DefaultDefaultDir == <<DefaultText, DefaultText>>

DeletedDir == ProfileDir(cfgName, cfgProfile)

\* The profile the store pointed to before the command, and points to now.
CurrentBefore == CurrentOf(cfgBefore.files, cfgBefore.pointer)

CurrentNow == CurrentOf(cfgFiles, cfgPointer)

\* The command removed the directory of the profile that was current.
DeletedTheCurrent ==
    /\ cfgOut = "none"
    /\ ProfileDir(CurrentBefore.CurrentName, CurrentBefore.CurrentProfile)
         = DeletedDir

\* The files of default/default that were there before are still there.
DefaultDefaultInPlace ==
    \A f \in cfgBefore.files :
        (Len(f) >= 2 /\ SubSeq(f, 1, 2) = DefaultDefaultDir) => f \in cfgFiles

\* C17: once cozyctl delete has returned: a request for default/default
\* was refused, and the default/default profile is in place as it was; when
\* the command deleted the profile that was current, the pointer is now
\* default/default; when it did not, the pointer is what it was.
C17_DeleteKeepsDefaultAndPointer ==
    cfgPc = "done" =>
        /\ IsDefaultDefault(cfgName, cfgProfile) =>
               cfgOut = "cannot delete default/default profile"
        /\ DefaultDefaultInPlace
        /\ DeletedTheCurrent => CurrentNow = DefaultPointer
        /\ ~DeletedTheCurrent => CurrentNow = CurrentBefore

\* The flags are plain names: no separator, no "." and not the name of the
\* pointer file.
PlainName(text) ==
    /\ text # <<>>
    /\ text # Dot
    /\ text # ConfigYaml
    /\ IndexOf(text, "/") = 0

\* What does hold of cozyctl delete: the same, for flags that are plain
\* names.
C17_PlainNamesKeepDefaultAndPointer ==
    (cfgPc = "done" /\ PlainName(cfgName) /\ PlainName(cfgProfile)) =>
        /\ IsDefaultDefault(cfgName, cfgProfile) =>
               cfgOut = "cannot delete default/default profile"
        /\ DefaultDefaultInPlace
        /\ DeletedTheCurrent => CurrentNow = DefaultPointer
        /\ ~DeletedTheCurrent => CurrentNow = CurrentBefore

\* The default/default profile was there, the command was run with
\* --name default --profile default/ and returned no error, and the
\* profile is gone.
C17_DefaultDefaultDeleted ==
    /\ cfgPc = "done"
    /\ cfgOut = "none"
    /\ cfgName = DefaultText
    /\ cfgProfile = DefaultText \o <<"/">>
    /\ ProfileConfigPath(DefaultText, DefaultText) \in cfgBefore.files
    /\ ProfileConfigPath(DefaultText, DefaultText) \notin cfgFiles

\* The current profile briheet/dev was deleted with --profile dev/ and the
\* pointer still names it.
C17_CurrentDeletedPointerKept ==
    /\ cfgPc = "done"
    /\ cfgOut = "none"
    /\ cfgName = BriheetText
    /\ cfgProfile = DevText \o <<"/">>
    /\ ProfileConfigPath(BriheetText, DevText) \in cfgBefore.files
    /\ ProfileConfigPath(BriheetText, DevText) \notin cfgFiles
    /\ CurrentNow = [CurrentName |-> BriheetText, CurrentProfile |-> DevText]

\* ---------------------------------------------------------------------
\* Status queries that fail, and the ways the polling loop returns.
\* ---------------------------------------------------------------------

\* The positions of the trace at which the status query returned an error.
QueryErrorAt ==
    {i \in 1..Len(pollTrace) :
        pollTrace[i].ev = "query" /\ pollTrace[i].resp.err}

\* The last event of the trace is a status query that returned an error.
LastQueryFailed == Len(pollTrace) \in QueryErrorAt

\* After a failed query the loop is about to sleep and has not returned; a
\* sleep follows it in the trace, and after the sleep the next query, unless
\* the loop is still on its way to it or the deadline has passed.
QueryErrorRetried ==
    \A i \in QueryErrorAt :
        /\ i = Len(pollTrace) => (pollPc = "sleep" /\ pollResult = "none")
        /\ i < Len(pollTrace) => pollTrace[i + 1].ev = "sleep"
        /\ i + 1 < Len(pollTrace) => pollTrace[i + 2].ev = "query"
        /\ i + 1 = Len(pollTrace) =>
               \/ pollPc \in {"loop", "query"} /\ pollResult = "none"
               \/ pollPc = "done" /\ pollResult = "BuildTimeout" /\ now >= deadline

\* The sleep that follows a failed query lasts one poll interval and leads
\* back to the test of the deadline.
QueryErrorWaitsOneInterval ==
    LastQueryFailed =>
        /\ now' = now + PollIntervalTicks
        /\ pollPc' = "loop"
        /\ pollResult' = "none"

\* C19: a status query that returns an error never ends the polling loop
\* and never fails the build: the loop sleeps one poll interval and queries
\* again, however many queries in a row fail, until a query is answered
\* with a terminal status or the deadline has passed; the build-failed
\* error is returned only on an answer "failed".
C19_QueryErrorsAreRetried ==
    /\ [](QueryErrorRetried
          /\ (pollResult = "BuildFailed" => Len(pollTrace) \in FailedAt))
    /\ [][QueryErrorWaitsOneInterval]_vars

\* C19 witness: three status queries in a row returned an error, each
\* followed by a sleep, and the next query's answer "success" ended the
\* loop.
C19_Witness ==
    /\ pollPc = "done"
    /\ pollResult = "Success"
    /\ Len(pollTrace) = 7
    /\ {1, 3, 5} \subseteq QueryErrorAt
    /\ \A i \in {2, 4, 6} : pollTrace[i].ev = "sleep"

\* The polling loop with its steps taken one after the other without end:
\* the function is sequential code, every status query returns within the
\* HTTP client's timeout and every sleep ends.
SpecPollFair == SpecPoll /\ WF_vars(NextPoll)

\* The positions of the trace at which a query was answered "success".
SuccessAt ==
    {i \in 1..Len(pollTrace) :
        /\ pollTrace[i].ev = "query"
        /\ ~pollTrace[i].resp.err
        /\ pollTrace[i].resp.status = "success"}

\* The positions of the trace at which a query was answered with a status
\* that is not terminal: pending, running, or one the switch does not name.
InProgressAt ==
    {i \in 1..Len(pollTrace) :
        /\ pollTrace[i].ev = "query"
        /\ ~pollTrace[i].resp.err
        /\ pollTrace[i].resp.status \notin {"success", "failed"}}

\* The ways the function has returned once the loop was entered: success
\* on an answer "success", the build-failed error on an answer "failed",
\* the timeout error with the deadline passed; and it has returned exactly
\* when it has a result.
ReturnsInThreeWays ==
    /\ (pollPc = "done") <=> (pollResult # "none")
    /\ pollResult \in {"none", "UploadFailed", "Success", "BuildFailed",
                       "BuildTimeout"}
    /\ pollResult = "UploadFailed" => pollTrace = <<>>
    /\ pollResult = "Success" => Len(pollTrace) \in SuccessAt
    /\ pollResult = "BuildFailed" => Len(pollTrace) \in FailedAt
    /\ pollResult = "BuildTimeout" =>
           /\ now >= deadline
           /\ SuccessAt = {}
           /\ FailedAt = {}

\* A terminal status ends the loop in the iteration that observed it; a
\* status that is not terminal never makes the function return: a sleep
\* follows it.
OnlyTerminalStatusReturns ==
    /\ \A i \in SuccessAt \cup FailedAt :
           i = Len(pollTrace) /\ pollPc = "done"
    /\ \A i \in InProgressAt :
           /\ i = Len(pollTrace) => (pollPc = "sleep" /\ pollResult = "none")
           /\ i < Len(pollTrace) => pollTrace[i + 1].ev = "sleep"

\* C20: BuildProjectOnServer's polling loop always terminates; it returns
\* success only on an observed status "success", the build-failed error
\* only on an observed status "failed", the timeout error only once the
\* deadline has passed, and in no other way; the statuses pending, running
\* and unknown ones never make it return.
C20_TerminatesInThreeWays ==
    /\ <>(pollPc = "done")
    /\ [](ReturnsInThreeWays /\ OnlyTerminalStatusReturns)

\* C20 witness: the loop saw pending, running and an unknown status, slept
\* after each, and returned the timeout error once the deadline had passed.
C20_Witness ==
    /\ pollPc = "done"
    /\ pollResult = "BuildTimeout"
    /\ now >= deadline
    /\ {pollTrace[i].resp.status : i \in InProgressAt}
         = {"pending", "running", "weird"}

\* ---------------------------------------------------------------------
\* findSignatureEnd against Python's string literals.
\* ---------------------------------------------------------------------

\* String literals as Python lexes them, each with the comma that follows it
\* in the parameter list; every parenthesis in them is inside the literal.
\* """a"(b""" : a triple-quoted string holding a lone quote
TripleWithLoneQuote == <<DQ, DQ, DQ, "a", DQ, "(", "b", DQ, DQ, DQ, ",">>

\* '''(''' : a triple-quoted string
TriplePlain == <<SQ, SQ, SQ, "(", SQ, SQ, SQ, ",">>

\* "\")" : a string holding an escaped quote
EscapedQuote == <<DQ, BS, DQ, ")", DQ, ",">>

\* "\\" : a string ending in an escaped backslash
EscapedBackslash == <<DQ, BS, BS, DQ, ",">>

\* '(' : a single-quoted string
SinglePlain == <<SQ, "(", SQ, ",">>

\* The literals the scan reads as Python does, and all of them.
SimpleLiterals == {TriplePlain, EscapedQuote, SinglePlain}

PythonLiterals == SimpleLiterals \cup {TripleWithLoneQuote, EscapedBackslash}

LexTokens == {<<"x", ":">>, <<"(">>, <<")">>} \cup PythonLiterals

LexParamLists ==
    {q \in SeqsUpTo(LexTokens, MaxTokens) : DepthOK(q, 0)}

\* A signature whose parameter list is made of Python string literals and
\* balanced parentheses.
InitLex ==
    /\ OthersIdle("sig")
    /\ sigParams \in LexParamLists
    /\ sigRet \in ReturnTexts
    /\ sigContent = DefHead \o Flatten(sigParams) \o <<")">> \o sigRet \o <<":">> \o BodyText
    /\ sigStart = Len(DefHead)
    /\ sigPc = "call"
    /\ sigOut = [panic |-> FALSE, end |-> 0]

SpecLex == InitLex /\ [][NextSig]_vars

\* The tokens of the parameter list that are of the given kinds.
UsesOnly(kinds) ==
    \A k \in 1..Len(sigParams) :
        sigParams[k] \in PythonLiterals => sigParams[k] \in kinds

\* C21: findSignatureEnd reads string literals as Python does, so that the
\* parentheses inside single-, double- and triple-quoted literals, with
\* escaped quotes and escaped backslashes, are not counted: for every
\* parameter list of such literals and balanced parentheses it returns the
\* offset just after the colon of the signature.
C21_LiteralsReadAsPython ==
    sigPc = "done" =>
        /\ ~sigOut.panic
        /\ sigOut.end = SignatureEnd

\* What does hold: the same for the literals without a lone quote inside a
\* triple-quoted string and without an escaped backslash before the closing
\* quote.
C21_SimpleLiteralsReadAsPython ==
    (sigPc = "done" /\ UsesOnly(SimpleLiterals)) =>
        /\ ~sigOut.panic
        /\ sigOut.end = SignatureEnd

\* The scan of def f("""a"(b""",) did not return the end of the signature.
C21_LoneQuoteEndsTripleString ==
    /\ sigPc = "done"
    /\ sigParams = <<TripleWithLoneQuote>>
    /\ sigOut.end # SignatureEnd

\* The scan of def f("\\",) did not return the end of the signature.
C21_EscapedBackslashKeepsString ==
    /\ sigPc = "done"
    /\ sigParams = <<EscapedBackslash>>
    /\ sigOut.end # SignatureEnd

\* ---------------------------------------------------------------------
\* findSignatureEnd on content that ends early.
\* ---------------------------------------------------------------------

\* The text of a whole definition after "def f(".
AfterDefHead(params, ret) ==
    Flatten(params) \o <<")">> \o ret \o <<":">> \o BodyText

\* The most tokens of a parameter list that is cut short.
MaxCutTokens == 2

\* A file that ends anywhere after "def f(": inside the parameter list,
\* inside a string literal, just after a quote, or in the body.
InitTrunc ==
    /\ OthersIdle("sig")
    /\ sigParams \in {q \in ParamLists : Len(q) <= MaxCutTokens}
    /\ sigRet \in ReturnTexts
    /\ \E cut \in 0..Len(AfterDefHead(sigParams, sigRet)) :
         sigContent = DefHead \o SubSeq(AfterDefHead(sigParams, sigRet), 1, cut)
    /\ sigStart = Len(DefHead)
    /\ sigPc = "call"
    /\ sigOut = [panic |-> FALSE, end |-> 0]

SpecTrunc == InitTrunc /\ [][NextSig]_vars

\* The content ends inside the signature: before the parenthesis that
\* closes the parameter list.
EndsInsideSignature ==
    Len(sigContent) <= Len(DefHead) + Len(Flatten(sigParams))

\* A quote is among the last two characters of the content.
QuoteNearEnd ==
    \E i \in {Len(sigContent) - 1, Len(sigContent)} :
        i > Len(DefHead) /\ IsQuote(sigContent[i])

\* C26: findSignatureEnd never reads past the end of the content: on every
\* content, also one that ends inside an unclosed signature or with a quote
\* among its last two characters, it returns without a panic, either an
\* offset inside the content after the start or -1, the value on which
\* parseWorkerFunctions falls back to the truncation.
C26_StaysInsideContent ==
    sigPc = "done" =>
        /\ ~sigOut.panic
        /\ \/ sigOut.end = -1
           \/ sigOut.end > sigStart /\ sigOut.end <= Len(sigContent)

\* What does hold: the same on content without a quote among its last two
\* characters.
C26_StaysInsideWithoutQuoteNearEnd ==
    (sigPc = "done" /\ ~QuoteNearEnd) =>
        /\ ~sigOut.panic
        /\ \/ sigOut.end = -1
           \/ sigOut.end > sigStart /\ sigOut.end <= Len(sigContent)

\* The content ends just after the opening quote of a default value,
\* def f(x:" , and the scan panicked on the slice content[i:i+3].
C26_PanicOnQuoteAtEnd ==
    /\ sigPc = "done"
    /\ EndsInsideSignature
    /\ sigContent = DefHead \o <<"x", ":", DQ>>
    /\ sigOut.panic


\* ---------------------------------------------------------------------
\* DetectWorkerFunctions on a project in which files fail.
\* ---------------------------------------------------------------------

\* What a file of the project is: absent, a file with one decorated
\* function or with two, a file that cannot be read, or a file whose last
\* definition is cut off just after the opening quote of a default value.
FileStates == {"absent", "one", "two", "unreadable", "cut"}

\* @worker_function() and def <fn>( with the rest of the line.
DecoratedDef(fn, rest) ==
    LineText("dec") \o <<"\n">> \o DefText \o <<" ">> \o fn \o <<"(">> \o rest

\* The content of a file of the given state whose functions are named by
\* the letter of the file.
FailContent(letter, state) ==
    CASE state = "two" ->
           DecoratedDef(<<letter, "1">>, <<")", ":", "\n">>)
           \o DecoratedDef(<<letter, "2">>, <<")", ":", "\n">>)
      [] state = "cut" -> DecoratedDef(<<letter, "1">>, <<"x", ":", DQ>>)
      [] OTHER -> DecoratedDef(<<letter, "1">>, <<")", ":", "\n">>)

\* The file <letter>.py in the given state.
FailFile(letter, state) ==
    FileNode(<<letter, ".", "p", "y">>, FailContent(letter, state),
             state # "unreadable")

\* proj/a.py, proj/b.py and proj/src/c.py, each in its state.
FailTree(shape) ==
    LET inner == IF shape.c = "absent" THEN {} ELSE {FailFile("c", shape.c)}
        outer == (IF shape.a = "absent" THEN {} ELSE {FailFile("a", shape.a)})
                 \cup (IF shape.b = "absent" THEN {} ELSE {FailFile("b", shape.b)})
                 \cup {DirNode(<<"s", "r", "c">>, Listing(inner))}
    IN  DirNode(ProjectName, Listing(outer))

InitFail ==
    /\ OthersIdle("det")
    /\ detShape \in [a : FileStates, b : FileStates, c : FileStates]
    /\ detLines = <<>>
    /\ detTree = FailTree(detShape)
    /\ detPc = "call"
    /\ detOut = NoDetection

SpecFail == InitFail /\ [][NextDet]_vars

\* The names of the functions of a file that does not fail.
NamesOfFile(letter, state) ==
    CASE state = "one" -> <<(<<letter, "1">>)>>
      [] state = "two" -> <<(<<letter, "1">>), (<<letter, "2">>)>>
      [] OTHER -> <<>>

\* The functions of the files that do not fail, in the order of the walk.
NamesWithoutFailing ==
    NamesOfFile("a", detShape.a) \o NamesOfFile("b", detShape.b)
    \o NamesOfFile("c", detShape.c)

\* Some file of the project fails: it cannot be read, or its content ends
\* inside a signature.
SomeFileFails ==
    \E k \in {"a", "b", "c"} : detShape[k] \in {"unreadable", "cut"}

\* C22: a file that fails while it is processed never aborts
\* DetectWorkerFunctions: the call returns, without an error, the functions
\* of all the other files in the order it would return them were the
\* failing file absent.
C22_FailingFileSkipped ==
    detPc = "done" =>
        /\ ~detOut.panic
        /\ ~detOut.err
        /\ DetectedNames = NamesWithoutFailing

\* What does hold: the same when the failing files are files that cannot
\* be read.
C22_UnreadableFileSkipped ==
    (detPc = "done" /\ \A k \in {"a", "b", "c"} : detShape[k] # "cut") =>
        /\ ~detOut.panic
        /\ ~detOut.err
        /\ DetectedNames = NamesWithoutFailing

\* With a.py and src/c.py in order and b.py cut off inside a signature, the
\* call did not return: the scan of b.py panicked.
C22_CutFileAbortsDetection ==
    /\ detPc = "done"
    /\ detShape = [a |-> "one", b |-> "cut", c |-> "two"]
    /\ detOut.panic

\* With b.py unreadable, the functions of a.py and src/c.py were returned.
C22_UnreadableSkippedReached ==
    /\ detPc = "done"
    /\ detShape = [a |-> "one", b |-> "unreadable", c |-> "two"]
    /\ DetectedNames = <<(<<"a", "1">>), (<<"c", "1">>), (<<"c", "2">>)>>


\* ---------------------------------------------------------------------
\* The GPU classification of a detected function.
\* ---------------------------------------------------------------------

\* The arguments of the decorator: none, and one that holds a keyword.
GpuDecoratorArgs == {<<>>, <<"c", "u", "d", "a">>}

\* The annotations of the parameter: those that hold a keyword, in upper,
\* lower and mixed case and inside longer words, and those that do not.
KeywordAnnotations ==
    {<<"M", "o", "d", "e", "l", "R", "e", "f">>, <<"T", "O", "R", "C", "H", ".", "T", "e", "n", "s", "o", "r">>, <<"C", "u", "d", "a">>, <<"n", "G", "P", "U", "s">>, <<"A", "u", "t", "o", "P", "i", "p", "e", "l", "i", "n", "e", "F", "o", "r">>,
     <<"S", "t", "a", "b", "l", "e", "D", "i", "f", "f", "u", "s", "i", "o", "n">>, <<"M", "y", "P", "i", "p", "e", "l", "i", "n", "e", "s">>, <<"A", "n", "n", "o", "t", "a", "t", "e", "d", "[", "i", "n", "t", "]">>}

PlainAnnotations == {<<"i", "n", "t">>, <<"A", "n", "o", "t", "a", "t", "e", "d">>, <<"t", "o", "r", "_", "c", "h">>}

\* The default value of the second parameter: none, a single-quoted
\* string, and a string that ends in an escaped backslash.
GpuDefaults == {<<>>, SinglePlain, EscapedBackslash}

\* The body: without a keyword, and with one.
PlainBody == <<" ", " ", " ", " ", "p", "a", "s", "s">> \o <<"\n">>

KeywordBody == <<" ", " ", " ", " ", "i", "m", "p", "o", "r", "t", " ", "t", "o", "r", "c", "h">> \o <<"\n">>

GpuShapes ==
    [args : GpuDecoratorArgs,
     annotation : KeywordAnnotations \cup PlainAnnotations,
     default : GpuDefaults,
     body : {PlainBody, KeywordBody}]

\* @worker_function(<args>)
\* def f(x: <annotation>, <default>):
\* <body>
GpuFileText(shape) ==
    DecoratorText \o <<"(">> \o shape.args \o <<")", "\n">>
    \o DefText \o <<" ", "f", "(", "x", ":", " ">> \o shape.annotation
    \o <<",">> \o shape.default \o <<")", ":", "\n">> \o shape.body

InitGpu ==
    /\ OthersIdle("det")
    /\ detShape \in GpuShapes
    /\ detLines = <<>>
    /\ detTree = DirNode(ProjectName,
                         <<FileNode(MainPy, GpuFileText(detShape), TRUE)>>)
    /\ detPc = "call"
    /\ detOut = NoDetection

SpecGpu == InitGpu /\ [][NextDet]_vars

\* The text from the start of the decorator to the end of the signature
\* holds a keyword.
SignatureHoldsKeyword ==
    detShape.args # <<>> \/ detShape.annotation \in KeywordAnnotations

\* C23: the one function of the file is classified as requiring GPU
\* exactly when the text from the start of its decorator to the end of its
\* signature, lower-cased, holds one of the keywords; the text of the body
\* does not change the classification.
C23_GpuFromSignatureOnly ==
    detPc = "done" =>
        /\ ~detOut.panic
        /\ Len(detOut.functions) = 1
        /\ detOut.functions[1].RequiresGPU <=> SignatureHoldsKeyword

\* What does hold: the same when the scan finds the end of the signature
\* (no default value ending in an escaped backslash).
C23_GpuFromSignatureWhenEndFound ==
    (detPc = "done" /\ detShape.default # EscapedBackslash) =>
        /\ ~detOut.panic
        /\ Len(detOut.functions) = 1
        /\ detOut.functions[1].RequiresGPU <=> SignatureHoldsKeyword

\* A function whose signature holds no keyword was classified as requiring
\* GPU because of its body: def f(x: int,"\\",): with import torch below.
C23_BodyChangedClassification ==
    /\ detPc = "done"
    /\ detShape = [args |-> <<>>, annotation |-> <<"i", "n", "t">>,
                   default |-> EscapedBackslash, body |-> KeywordBody]
    /\ detOut.functions[1].RequiresGPU


\* ---------------------------------------------------------------------
\* The ignore file: createTarball of the deploy command (.gitignore
\* patterns, matchPattern) beside CreateTarball of the build command, on
\* the same project.
\* ---------------------------------------------------------------------

GitignoreName == <<".", "g", "i", "t", "i", "g", "n", "o", "r", "e">>

\* filepath.Base of a relative path
Base(path) ==
    LET parts == Split(path, "/") IN parts[Len(parts)]

RECURSIVE GlobMatch(_, _)
\* filepath.Match for patterns of literal characters, "?" and "*": a star
\* matches any run of characters that holds no separator.
GlobMatch(pattern, name) ==
    IF pattern = <<>> THEN name = <<>>
    ELSE IF Head(pattern) = "*"
    THEN \/ GlobMatch(Tail(pattern), name)
         \/ name # <<>> /\ Head(name) # "/" /\ GlobMatch(pattern, Tail(name))
    ELSE /\ name # <<>>
         /\ (Head(pattern) = "?" /\ Head(name) # "/") \/ Head(pattern) = Head(name)
         /\ GlobMatch(Tail(pattern), Tail(name))

\* matchPattern
matchPattern(path, rawPattern) ==
    LET pattern == TrimPrefix(rawPattern, <<"/">>)
    IN  IF HasSuffix(pattern, <<"/">>)
        THEN HasPrefix(path \o <<"/">>, pattern)
        ELSE IF Contains(pattern, <<"*">>)
        THEN GlobMatch(pattern, Base(path))
        ELSE path = pattern \/ HasPrefix(path, pattern \o <<"/">>)

\* loadGitignore: the trimmed lines of .gitignore that are neither empty
\* nor comments; none when the file cannot be read.
loadGitignore(root) ==
    LET found == {i \in 1..Len(root.children) :
                    /\ root.children[i].name = GitignoreName
                    /\ ~root.children[i].dir
                    /\ root.children[i].readable}
    IN  IF found = {} THEN <<>>
        ELSE LET file == root.children[CHOOSE i \in found : TRUE]
                 lines == Split(file.content, "\n")
                 trimmed == [i \in 1..Len(lines) |-> TrimSpace(lines[i])]
             IN  SelectSeq(trimmed,
                           LAMBDA line : line # <<>> /\ ~HasPrefix(line, <<"#">>))

\* The names shouldSkip always skips.
deploySkipNames ==
    {<<".", "g", "i", "t">>, <<"_", "_", "p", "y", "c", "a", "c", "h", "e", "_", "_">>, <<".", "v", "e", "n", "v">>, <<"v", "e", "n", "v">>, <<".", "m", "y", "p", "y", "_", "c", "a", "c", "h", "e">>,
     <<".", "p", "y", "t", "e", "s", "t", "_", "c", "a", "c", "h", "e">>, <<"n", "o", "d", "e", "_", "m", "o", "d", "u", "l", "e", "s">>, <<".", "D", "S", "_", "S", "t", "o", "r", "e">>}

\* shouldSkip
shouldSkip(rel, node, gitignore) ==
    \/ node.name \in deploySkipNames
    \/ \E i \in 1..Len(gitignore) : matchPattern(rel, gitignore[i])

RECURSIVE DeployWalk(_, _, _, _)
RECURSIVE DeployWalkChildren(_, _, _, _)
\* filepath.Walk with the callback of createTarball: the project directory
\* itself is passed over, a skipped directory is not read, every other entry
\* gets a header, and a regular file that cannot be opened ends the walk.
DeployWalk(node, path, gitignore, written) ==
    LET rel == RelPath(path)
        header == Append(written, rel)
    IN  IF rel = <<".">>
        THEN DeployWalkChildren(node.children, path, gitignore, written)
        ELSE IF shouldSkip(rel, node, gitignore)
        THEN [err |-> "none", written |-> written]
        ELSE IF node.dir
        THEN DeployWalkChildren(node.children, path, gitignore, header)
        ELSE IF ~node.symlink /\ ~node.readable
        THEN [err |-> "open", written |-> header]
        ELSE [err |-> "none", written |-> header]

DeployWalkChildren(children, path, gitignore, written) ==
    IF children = <<>> THEN [err |-> "none", written |-> written]
    ELSE LET first == DeployWalk(Head(children),
                                 Append(path, Head(children).name),
                                 gitignore, written)
         IN  IF first.err # "none" THEN first
             ELSE DeployWalkChildren(Tail(children), path, gitignore,
                                     first.written)

\* createTarball of the deploy command: the archive is returned only when
\* the walk ended without an error.
deployCreateTarball(root) ==
    LET walked == DeployWalk(root, <<root.name>>, loadGitignore(root), <<>>)
    IN  [err |-> walked.err,
         archive |-> IF walked.err = "none" THEN walked.written ELSE <<>>]

\* The lines an ignore file of the model is made of.
IgnoreLines ==
    {<<"d", "a", "t", "a", "/">>, <<"*", ".", "l", "o", "g">>, <<"s", "e", "c", "r", "e", "t", ".", "t", "x", "t">>, <<"d", "a", "t", "a">>, <<"d", "a", "t", "a", "/", "s", "u", "b">>, <<"#", " ", "s", "e", "c", "r", "e", "t", ".", "t", "x", "t">>,
     <<" ", "n", "o", "t", "e", "s", ".", "l", "o", "g", " ">>, <<"s", "*">>, <<"s", "r", "c", "/", "*", ".", "l", "o", "g">>}

\* The most lines an ignore file has.
MaxIgnoreLines == 2

\* The project: a.py, data/x.csv, data/sub/y.log, datax/z.txt, notes.log,
\* secret.txt and src/notes.log, with .gitignore when there is one.
IgnoreTree(file) ==
    LET sub == DirNode(<<"s", "u", "b">>, <<FileNode(<<"y", ".", "l", "o", "g">>, <<>>, TRUE)>>)
        data == DirNode(<<"d", "a", "t", "a">>, Listing({sub, FileNode(<<"x", ".", "c", "s", "v">>, <<>>, TRUE)}))
        datax == DirNode(<<"d", "a", "t", "a", "x">>, <<FileNode(<<"z", ".", "t", "x", "t">>, <<>>, TRUE)>>)
        src == DirNode(<<"s", "r", "c">>, <<FileNode(<<"n", "o", "t", "e", "s", ".", "l", "o", "g">>, <<>>, TRUE)>>)
        fixed == {data, datax, src, FileNode(<<"a", ".", "p", "y">>, <<>>, TRUE),
                  FileNode(<<"n", "o", "t", "e", "s", ".", "l", "o", "g">>, <<>>, TRUE),
                  FileNode(<<"s", "e", "c", "r", "e", "t", ".", "t", "x", "t">>, <<>>, TRUE)}
        ignore == IF file.present
                  THEN {FileNode(GitignoreName, Join(file.lines, <<"\n">>), TRUE)}
                  ELSE {}
    IN  DirNode(ProjectName, Listing(fixed \cup ignore))

NoArchive == [err |-> "none", archive |-> <<>>]

InitIgn ==
    /\ OthersIdle("ign")
    /\ ignLines \in [present : {TRUE}, lines : SeqsUpTo(IgnoreLines, MaxIgnoreLines)]
                    \cup {[present |-> FALSE, lines |-> <<>>]}
    /\ ignTree = IgnoreTree(ignLines)
    /\ ignPc = [deploy |-> "call", build |-> "call"]
    /\ ignDeploy = NoArchive
    /\ ignBuild = NoArchive

\* runDeploy calls createTarball(absPath).
CallDeployCreateTarball ==
    /\ ignPc.deploy = "call"
    /\ ignPc' = [ignPc EXCEPT !.deploy = "done"]
    /\ ignDeploy' = deployCreateTarball(ignTree)
    /\ UNCHANGED <<ignLines, ignTree, ignBuild, notIgn>>

\* BuildProjectOnServer calls CreateTarball(projectDir) on the same project.
CallBuildCreateTarball ==
    /\ ignPc.build = "call"
    /\ ignPc' = [ignPc EXCEPT !.build = "done"]
    /\ ignBuild' = LET r == CreateTarball(ignTree)
                   IN  [err |-> r.err, archive |-> r.archive]
    /\ UNCHANGED <<ignLines, ignTree, ignDeploy, notIgn>>

NextIgn ==
    \/ CallDeployCreateTarball
    \/ CallBuildCreateTarball

SpecIgn == InitIgn /\ [][NextIgn]_vars

\* The relative paths of the project, the ignore file aside.
ProjectPaths ==
    {<<"a", ".", "p", "y">>, <<"d", "a", "t", "a">>, <<"d", "a", "t", "a", "/", "x", ".", "c", "s", "v">>, <<"d", "a", "t", "a", "/", "s", "u", "b">>, <<"d", "a", "t", "a", "/", "s", "u", "b", "/", "y", ".", "l", "o", "g">>, <<"d", "a", "t", "a", "x">>,
     <<"d", "a", "t", "a", "x", "/", "z", ".", "t", "x", "t">>, <<"n", "o", "t", "e", "s", ".", "l", "o", "g">>, <<"s", "e", "c", "r", "e", "t", ".", "t", "x", "t">>, <<"s", "r", "c">>, <<"s", "r", "c", "/", "n", "o", "t", "e", "s", ".", "l", "o", "g">>}

\* The paths each line of the ignore file matches, by the three rules: a
\* line ending in a slash, that directory and every path under it; a line
\* with a wildcard, the paths whose base name it matches; any other line,
\* that path and every path below it.  A comment matches nothing.
MatchedBy(line) ==
    CASE line = <<"d", "a", "t", "a", "/">> -> {<<"d", "a", "t", "a">>, <<"d", "a", "t", "a", "/", "x", ".", "c", "s", "v">>, <<"d", "a", "t", "a", "/", "s", "u", "b">>, <<"d", "a", "t", "a", "/", "s", "u", "b", "/", "y", ".", "l", "o", "g">>}
      [] line = <<"*", ".", "l", "o", "g">> -> {<<"d", "a", "t", "a", "/", "s", "u", "b", "/", "y", ".", "l", "o", "g">>, <<"n", "o", "t", "e", "s", ".", "l", "o", "g">>, <<"s", "r", "c", "/", "n", "o", "t", "e", "s", ".", "l", "o", "g">>}
      [] line = <<"s", "e", "c", "r", "e", "t", ".", "t", "x", "t">> -> {<<"s", "e", "c", "r", "e", "t", ".", "t", "x", "t">>}
      [] line = <<"d", "a", "t", "a">> -> {<<"d", "a", "t", "a">>, <<"d", "a", "t", "a", "/", "x", ".", "c", "s", "v">>, <<"d", "a", "t", "a", "/", "s", "u", "b">>, <<"d", "a", "t", "a", "/", "s", "u", "b", "/", "y", ".", "l", "o", "g">>}
      [] line = <<"d", "a", "t", "a", "/", "s", "u", "b">> -> {<<"d", "a", "t", "a", "/", "s", "u", "b">>, <<"d", "a", "t", "a", "/", "s", "u", "b", "/", "y", ".", "l", "o", "g">>}
      [] line = <<" ", "n", "o", "t", "e", "s", ".", "l", "o", "g", " ">> -> {<<"n", "o", "t", "e", "s", ".", "l", "o", "g">>}
      [] line = <<"s", "*">> -> {<<"s", "e", "c", "r", "e", "t", ".", "t", "x", "t">>, <<"s", "r", "c">>, <<"d", "a", "t", "a", "/", "s", "u", "b">>}
      [] OTHER -> {}

\* The paths the ignore file of the project matches.
IgnoredPaths ==
    UNION {MatchedBy(ignLines.lines[i]) : i \in 1..Len(ignLines.lines)}

\* The paths that lie below a path the ignore file matches.
BelowIgnored ==
    {p \in ProjectPaths : \E q \in IgnoredPaths : HasPrefix(p, q \o <<"/">>)}

\* The paths of an archive.
ArchivePaths(out) == {out.archive[i] : i \in 1..Len(out.archive)}

\* C24: when the project has an ignore file, no path that one of its
\* patterns matches is in the archive a packager produces for upload:
\* neither in the archive of createTarball nor in that of CreateTarball.
C24_IgnoredPathsLeftOut ==
    /\ ignPc.deploy = "done" => IgnoredPaths \cap ArchivePaths(ignDeploy) = {}
    /\ ignPc.build = "done" => IgnoredPaths \cap ArchivePaths(ignBuild) = {}

\* What does hold: the archive of the deploy command's createTarball holds
\* the ignore file and exactly the paths that no pattern matches and that
\* lie below no matched path.
C24_DeployLeavesIgnoredOut ==
    ignPc.deploy = "done" =>
        /\ ignDeploy.err = "none"
        /\ ArchivePaths(ignDeploy) \ {GitignoreName}
             = ProjectPaths \ (IgnoredPaths \cup BelowIgnored)

\* With secret.txt and *.log in the ignore file, the archive of
\* CreateTarball holds secret.txt and notes.log.
C24_BuildArchiveHoldsIgnored ==
    /\ ignPc.build = "done"
    /\ ignLines.lines = <<<<"s", "e", "c", "r", "e", "t", ".", "t", "x", "t">>, <<"*", ".", "l", "o", "g">>>>
    /\ {<<"s", "e", "c", "r", "e", "t", ".", "t", "x", "t">>, <<"n", "o", "t", "e", "s", ".", "l", "o", "g">>} \subseteq ArchivePaths(ignBuild)

\* ---------------------------------------------------------------------
\* The project root and the exclusion rules of CreateTarball.
\* ---------------------------------------------------------------------

\* C30: CreateTarball never skips the project root, whatever its name: a
\* walk that ended without an error put into the archive every entry of
\* the tree that no exclusion rule applies to.
C30_RootNeverSkipped ==
    (tarPc = "done" /\ tarOut.err = "none") =>
        /\ tarOut.returned
        /\ \A entry \in TarPlaced :
               ~MustBeLeftOut(entry) => InArchive(PlacedPath(entry))

\* What does hold: the same for a root whose name is not an excluded
\* directory name, a name that begins with a dot included.
C30_RootKeptUnlessExcludedName ==
    (tarPc = "done" /\ tarOut.err = "none"
        /\ tarShape.root \notin ExcludedDirNames) =>
        /\ tarOut.returned
        /\ \A entry \in TarPlaced :
               ~MustBeLeftOut(entry) => InArchive(PlacedPath(entry))

\* The project directory venv holds a.py and src/a.py; the walk ended
\* without an error and the archive is empty.
C30_RootNamedVenvSkipped ==
    /\ tarPc = "done"
    /\ tarShape.root = <<"v", "e", "n", "v">>
    /\ tarShape.e0 = <<"a", ".", "p", "y">> /\ tarShape.k0 = "file"
    /\ tarShape.d1 = <<"s", "r", "c">> /\ tarShape.d2 = Absent
    /\ tarShape.e1 = <<"a", ".", "p", "y">> /\ tarShape.k1 = "file"
    /\ tarOut.err = "none"
    /\ tarOut.archive = <<>>

\* The project directory .proj holds a.py and src/a.py, and the archive
\* holds both.
C30_HiddenRootPacked ==
    /\ tarPc = "done"
    /\ tarShape.root = <<".", "p", "r", "o", "j">>
    /\ tarShape.e0 = <<"a", ".", "p", "y">> /\ tarShape.k0 = "file"
    /\ tarShape.d1 = <<"s", "r", "c">> /\ tarShape.d2 = Absent
    /\ tarShape.e1 = <<"a", ".", "p", "y">> /\ tarShape.k1 = "file"
    /\ InArchive(<<"a", ".", "p", "y">>)
    /\ InArchive(<<"s", "r", "c", "/", "a", ".", "p", "y">>)


----------------------------------------------------------------------------
(***************************************************************************)
(* One command run: a remote build or an update                            *)
(***************************************************************************)

\* A command run is one call of BuildProjectOnServer or one call of the
\* update pipeline's Run.
InitOnce == InitPoll \/ InitUpd

NextOnce == NextPoll \/ NextUpd

SpecOnce == InitOnce /\ [][NextOnce]_vars

\* The remote build returned the error of client.UploadBuild.
UploadFailedReturned == pollResult = "UploadFailed"

\* The update pipeline returned the error of client.UpdateDeployment.
UpdateFailedReturned == updResult = "failed to update deployment"

\* The update requests a run has sent so far.
UpdateRequestsSent == IF updPc = "idle" THEN 0 ELSE Len(updEffects.requests)

\* A step that leaves the submission of the build is never followed by a
\* step that returns to it.
SubmissionNotRepeated == pollPc # "upload" => pollPc' # "upload"

\* C25: build submission and deployment registration are each attempted at
\* most once per command run: when the upload or the build creation fails
\* the remote build returns that error with no status query and no sleep
\* of the polling loop, and when the update request fails the update
\* pipeline returns that error having sent exactly one request.
C25_SubmittedAtMostOnce ==
    /\ [](UploadFailedReturned => pollPc = "done" /\ pollTrace = <<>>)
    /\ [][SubmissionNotRepeated]_vars
    /\ [](UpdateRequestsSent <= 1)
    /\ [](UpdateFailedReturned => updPc = "done" /\ UpdateRequestsSent = 1)

\* C25 witness: a remote build whose submission failed has returned.
C25_Witness ==
    /\ UploadFailedReturned
    /\ pollPc = "done"
    /\ pollTrace = <<>>

\* An update run whose only request failed has returned.
C25_UpdateFailedOnce ==
    /\ UpdateFailedReturned
    /\ updPc = "done"
    /\ UpdateRequestsSent = 1


----------------------------------------------------------------------------
(***************************************************************************)
(* The profile store under sequences of login, import, use and delete      *)
(***************************************************************************)

\* The values of --name and --profile the four commands are run with.
StoreNames == {<<>>, DefaultText, BriheetText}

StoreProfiles == {<<>>, DefaultText, DevText}

\* A store nothing was ever written to: no profile, no pointer file.
InitStore ==
    /\ OthersIdle("cfg")
    /\ cfgFiles = {}
    /\ cfgPointer = DefaultPointer
    /\ cfgName = <<>>
    /\ cfgProfile = <<>>
    /\ cfgBefore = [files |-> {}, pointer |-> DefaultPointer]
    /\ cfgPc = "start"
    /\ cfgOut = "none"

\* config.ProfileExists
ProfileExists(files, name, profile) ==
    PathExists(files, ProfileConfigPath(name, profile))

\* The outcomes of config.SaveProfileConfig: the file is written, nothing
\* is written, or the file is written and the chmod after it fails.
SaveOutcomes == {"saved", "notWritten", "chmodFailed"}

\* config.SaveProfileConfig
SaveProfileConfig(files, name, profile, outcome) ==
    [err |-> CASE outcome = "saved" -> "none"
               [] outcome = "notWritten" -> "failed to write profile config"
               [] OTHER -> "failed to set config file permissions",
     files |-> IF outcome = "notWritten" THEN files
               ELSE files \cup {ProfileConfigPath(name, profile)}]

\* if name == "" { name = "default" }
OrDefault(text) == IF text = <<>> THEN DefaultText ELSE text

\* The answers to config.PromptOverwrite.
PromptAnswers == {"yes", "no", "error"}

\* login.RunLogin and login.ImportConfig, which differ in the step between
\* the prompt and the save (ValidateAPIKey, ImportConfigFile): `prepared`
\* says whether the API key was obtained and that step succeeded.
SaveAndPoint(files, ptr, flagName, flagProfile, answer, prepared, outcome, pointed) ==
    LET name == OrDefault(flagName)
        profile == OrDefault(flagProfile)
        kept == [files |-> files, pointer |-> ptr]
    IN  IF ProfileExists(files, name, profile) /\ answer = "error"
        THEN [err |-> "failed to read input"] @@ kept
        ELSE IF ProfileExists(files, name, profile) /\ answer = "no"
        THEN [err |-> "cancelled"] @@ kept
        ELSE IF ~prepared
        THEN [err |-> "failed before the profile was saved"] @@ kept
        ELSE LET p == SaveProfileConfig(files, name, profile, outcome)
             IN  IF p.err # "none"
                 THEN [err |-> p.err, files |-> p.files, pointer |-> ptr]
                 ELSE SaveDefaultConfig(p.files, ptr, name, profile, pointed)

\* The RunE of cozyctl use.
RunUse(files, ptr, flagName, flagProfile, read, saved, switched) ==
    LET g == GetDefaultConfig(files, ptr, read, saved)
        newName == IF flagName = <<>> THEN g.cfg.CurrentName ELSE flagName
        newProfile == IF flagProfile = <<>> THEN g.cfg.CurrentProfile
                      ELSE flagProfile
    IN  IF g.err # "none"
        THEN [err |-> g.err, files |-> g.files, pointer |-> g.pointer]
        ELSE IF ~ProfileExists(g.files, newName, newProfile)
        THEN [err |-> "profile does not exist", files |-> g.files,
              pointer |-> g.pointer]
        ELSE SaveDefaultConfig(g.files, g.pointer, newName, newProfile, switched)

\* What a command leaves in the store: r is the answer of its RunE.
StoreAfter(op, name, profile, r) ==
    /\ cfgPc' = op
    /\ cfgName' = name
    /\ cfgProfile' = profile
    /\ cfgFiles' = r.files
    /\ cfgPointer' = r.pointer
    /\ cfgOut' = r.err

\* The ways the steps of login and import go: a command returns at its
\* first step that fails, so at most one step of a run fails.
SaveRuns ==
    {[answer |-> "yes", prepared |-> TRUE, outcome |-> "saved", pointed |-> TRUE],
     [answer |-> "no", prepared |-> TRUE, outcome |-> "saved", pointed |-> TRUE],
     [answer |-> "error", prepared |-> TRUE, outcome |-> "saved", pointed |-> TRUE],
     [answer |-> "yes", prepared |-> FALSE, outcome |-> "saved", pointed |-> TRUE],
     [answer |-> "yes", prepared |-> TRUE, outcome |-> "notWritten", pointed |-> TRUE],
     [answer |-> "yes", prepared |-> TRUE, outcome |-> "chmodFailed", pointed |-> TRUE],
     [answer |-> "yes", prepared |-> TRUE, outcome |-> "saved", pointed |-> FALSE]}

\* The ways the file operations of use and delete go: all succeed, or one
\* of them fails.
FileRuns ==
    {run \in [removed : BOOLEAN, read : BOOLEAN, saved : BOOLEAN, switched : BOOLEAN] :
        Cardinality({f \in {"removed", "read", "saved", "switched"} : ~run[f]}) <= 1}

\* cozyctl login --name .. --profile ..
OpLogin ==
    /\ cfgPc # "idle"
    /\ \E name \in StoreNames, profile \in StoreProfiles, run \in SaveRuns :
         StoreAfter("login", name, profile,
                    SaveAndPoint(cfgFiles, cfgPointer, name, profile, run.answer,
                                 run.prepared, run.outcome, run.pointed))
    /\ UNCHANGED <<cfgBefore, notCfg>>

\* cozyctl login --config-file .. --name .. --profile ..
OpImport ==
    /\ cfgPc # "idle"
    /\ \E name \in StoreNames, profile \in StoreProfiles, run \in SaveRuns :
         StoreAfter("import", name, profile,
                    SaveAndPoint(cfgFiles, cfgPointer, name, profile, run.answer,
                                 run.prepared, run.outcome, run.pointed))
    /\ UNCHANGED <<cfgBefore, notCfg>>

\* cozyctl use --name .. --profile ..
OpUse ==
    /\ cfgPc # "idle"
    /\ \E name \in StoreNames, profile \in StoreProfiles, run \in FileRuns :
         /\ run.removed
         /\ StoreAfter("use", name, profile,
                       RunUse(cfgFiles, cfgPointer, name, profile,
                              run.read, run.saved, run.switched))
    /\ UNCHANGED <<cfgBefore, notCfg>>

\* cozyctl delete --name .. --profile ..
OpDelete ==
    /\ cfgPc # "idle"
    /\ \E name \in StoreNames, profile \in StoreProfiles, run \in FileRuns :
         StoreAfter("delete", name, profile,
                    RunDelete(cfgFiles, cfgPointer, name, profile,
                              run.removed, run.read, run.saved, run.switched))
    /\ UNCHANGED <<cfgBefore, notCfg>>

NextStore ==
    \/ OpLogin
    \/ OpImport
    \/ OpUse
    \/ OpDelete

SpecStore == InitStore /\ [][NextStore]_vars

\* The config file of the profile the store points to is there.
PointerNamesProfile ==
    ProfileConfigPath(CurrentNow.CurrentName, CurrentNow.CurrentProfile)
        \in cfgFiles

\* The step leaves the pointer on an existing profile if it was on one.
KeepsPointerOnProfile == PointerNamesProfile => PointerNamesProfile'

\* A login, import or use that returned no error left the pointer on an
\* existing profile.
SuccessPointsToProfile ==
    (cfgPc \in {"login", "import", "use"} /\ cfgOut = "none") =>
        PointerNamesProfile

\* A use that returned an error left the pointer as it was.
RefusedUseKeepsPointer ==
    (cfgPc' = "use" /\ cfgOut' # "none") => CurrentNow' = CurrentNow

\* C27: through every sequence of login, import, use and delete the current
\* pointer names a profile whose config file exists: a pointer that names
\* one names one after every further command, a login, import or use that
\* succeeded has left it on one, and a use that was refused has left it
\* unchanged.
C27_PointerNamesExistingProfile ==
    /\ [][KeepsPointerOnProfile]_vars
    /\ []SuccessPointsToProfile
    /\ [][RefusedUseKeepsPointer]_vars

\* What does hold: the same of every command but delete.
C27_LoginImportUseKeepPointer ==
    /\ [][cfgPc' # "delete" => KeepsPointerOnProfile]_vars
    /\ []SuccessPointsToProfile
    /\ [][RefusedUseKeepsPointer]_vars

\* After a login as briheet/dev, cozyctl delete --name briheet --profile
\* dev returned no error and the pointer names default/default, which was
\* never saved.
C27_DeleteLeftPointerOnAbsent ==
    /\ cfgPc = "delete"
    /\ cfgOut = "none"
    /\ cfgName = BriheetText
    /\ cfgProfile = DevText
    /\ CurrentNow = DefaultPointer
    /\ DefaultConfigPath \in cfgFiles
    /\ ProfileConfigPath(DefaultText, DefaultText) \notin cfgFiles
    /\ ~PointerNamesProfile

\* A use of a profile that does not exist was refused while the pointer
\* names an existing one.
C27_UseRefused ==
    /\ cfgPc = "use"
    /\ cfgOut = "profile does not exist"
    /\ PointerNamesProfile


\* ---------------------------------------------------------------------
\* The end of a log stream that holds no completion marker.
\* ---------------------------------------------------------------------

\* The reader returned at a `data: [DONE]` line it had just read.
ReturnedAtDone == ssePos > 0 /\ sseStream[ssePos] = LineDone

\* The lines of the stream a reader has read.
LinesRead == {sseStream[i] : i \in 1..ssePos}

\* C28: a log-stream reader reports success only if it has read the
\* `data: [DONE]` line: a stream that ends before any [DONE] line is never
\* reported as a completed build.
C28_SuccessOnlyAfterDone ==
    (sseReader \in {"deploy", "builds"} /\ sseResult = "ok") =>
        (LineDone \in LinesRead /\ ReturnedAtDone)

\* What does hold: a reader reports success at the [DONE] line, or at the
\* end of an input that was read without error and holds no [DONE] line;
\* an input that ends with a read error is reported as that error.
C28_SuccessAtDoneOrCleanEnd ==
    sseReader \in {"deploy", "builds"} =>
        /\ sseResult = "ok" =>
             \/ ReturnedAtDone
             \/ /\ ssePos = Len(sseStream)
                /\ ~sseReadErr
                /\ LineDone \notin LinesRead
        /\ sseResult = "read error" =>
             (sseReadErr /\ ssePos = Len(sseStream) /\ LineDone \notin LinesRead)

\* The deploy reader has read a stream of log lines that ended without a
\* [DONE] line and without an error event, and has reported success.
C28_CutStreamReportedAsSuccess ==
    /\ sseReader = "deploy"
    /\ sseResult = "ok"
    /\ sseStream # <<>>
    /\ ssePos = Len(sseStream)
    /\ LineDone \notin LinesRead
    /\ LineError \notin LinesRead
    /\ LineLog \in LinesRead

\* The builds reader has reported success on an input without any line.
C28_EmptyStreamReportedAsSuccess ==
    /\ sseReader = "builds"
    /\ sseResult = "ok"
    /\ sseStream = <<>>


\* ---------------------------------------------------------------------
\* The existence check of the update pipeline.
\* ---------------------------------------------------------------------

\* Run returned because the deployment is unknown, or because the query
\* for it failed.
DeploymentCheckFailed ==
    updResult \in {"deployment not found", "failed to check deployment"}

\* C29: the update pipeline checks that the deployment exists before it
\* produces anything: while the check is pending nothing has been written,
\* built or sent and no function source has been consulted, and when the
\* check reports an unknown deployment or fails, the run has ended with
\* that error and still nothing has been written, built or sent.
C29_ChecksDeploymentFirst ==
    /\ updPc = "getDeployment" => (updEffects = NoEffects /\ updConsulted = {})
    /\ DeploymentCheckFailed =>
         /\ updPc = "done"
         /\ updEffects = NoEffects
         /\ updConsulted = {}
         /\ updFunctions = <<>>

\* C29 witness: a run that is neither a dry run nor image-only has ended
\* because the deployment is unknown.
C29_Witness ==
    /\ updResult = "deployment not found"
    /\ updPc = "done"
    /\ ~updOpts.DryRun
    /\ ~updOpts.ImageOnly
    /\ updEffects = NoEffects

\* A run has ended because the query for the deployment failed.
C29_QueryFailed ==
    /\ updResult = "failed to check deployment"
    /\ updPc = "done"
    /\ updEffects = NoEffects

====
